---- MODULE Spec2Model ----
(***************************************************************************)
(* Resolution-and-merge engine of the summer-camp timetable generators:    *)
(* generate_student_timetables.py (one timetable per student) and          *)
(* generate_teacher_timetables.py (one timetable per teacher).             *)
(*                                                                         *)
(* Representation.  Python strings are modelled at two granularities.      *)
(*  - A time string is a sequence of one-character strings, so that        *)
(*    strptime, strftime and the string order used by sort are computed    *)
(*    character by character.                                              *)
(*  - A cell text is a sequence of lexemes: a lexeme is a maximal          *)
(*    alphanumeric word, one punctuation character, or one whitespace      *)
(*    character (" " or "\n").  The map from a Python string to its        *)
(*    lexeme sequence is injective, so equality of lexeme sequences is     *)
(*    exact string equality.                                               *)
(***************************************************************************)
EXTENDS Integers, Sequences, FiniteSets, TLC

VARIABLES
    gen,                \* which generator runs: "student" | "individual" | "legacy" | "teacher"
    sheets,             \* processed_sheets, in workbook.sheetnames order
    room_mappings,      \* teacher name -> room, as the dict's item sequence
    student_to_groups,  \* student id -> set of group names
    student_name_map,   \* student id -> display name, as the dict's item sequence
    room_no_map,        \* room name -> room number, as the dict's item sequence
    pc,                 \* position of the generator in its loops
    entities,           \* sorted(list(all_students)) / sorted(list(all_teachers))
    ei,                 \* index of the current entity in entities
    di,                 \* day_index + 1 of the sheet being resolved
    ri,                 \* index of the next row of schedule_rows
    schedule,           \* student_schedule (list) / daily_schedule_map (items)
    check_in_added,     \* day_6_check_in_added
    daily_schedules,    \* daily_schedules of the current entity, by sheet index
    all_time_slots,     \* all_time_slots of the current entity
    written,            \* the cells written and merged so far, by sheet index
    wd,                 \* sheet index of the column being written
    saved,              \* entity -> [daily |-> daily_schedules, blocks |-> written]
    run,                \* number of the current invocation of the generator
    first_run,          \* what the first invocation saved
    original_sheet,     \* process_pianist_timetables: merged_cells.ranges of the source sheet
    pianist_ws,         \* process_pianist_timetables: the output worksheet
    merge_pc            \* process_pianist_timetables: position in the merging of the sheet

vars == <<gen, sheets, room_mappings, student_to_groups, student_name_map, room_no_map,
          pc, entities, ei, di, ri,
          schedule, check_in_added, daily_schedules, all_time_slots, written, wd,
          saved, run, first_run, original_sheet, pianist_ws, merge_pc>>

(***************************************************************************)
(* Characters and time strings                                             *)
(***************************************************************************)
Digits == <<"0", "1", "2", "3", "4", "5", "6", "7", "8", "9">>

IsDigit(c) == \E n \in 1..10 : Digits[n] = c

DigitVal(c) == (CHOOSE n \in 1..10 : Digits[n] = c) - 1

\* ord(c) for the characters that occur in the modelled time values
CharOrd(c) ==
    CASE c = " " -> 32
      [] c = "-" -> 45
      [] IsDigit(c) -> 48 + DigitVal(c)
      [] c = ":" -> 58
      [] c = "A" -> 65
      [] c = "M" -> 77
      [] c = "P" -> 80
      [] c = "T" -> 84
      [] c = "a" -> 97
      [] c = "e" -> 101
      [] c = "i" -> 105
      [] c = "m" -> 109
      [] c = "p" -> 112

\* str.lower() on one character
LowerChar(c) ==
    CASE c = "A" -> "a"
      [] c = "M" -> "m"
      [] c = "P" -> "p"
      [] c = "T" -> "t"
      [] OTHER -> c

\* Python's < on str: lexicographic by code point
RECURSIVE StrLess(_, _)
StrLess(a, b) ==
    IF a = <<>> THEN b # <<>>
    ELSE IF b = <<>> THEN FALSE
    ELSE IF a[1] = b[1] THEN StrLess(Tail(a), Tail(b))
    ELSE CharOrd(a[1]) < CharOrd(b[1])

\* str.strip() on a character sequence (the only whitespace modelled is " ")
RECURSIVE StripChars(_)
StripChars(s) ==
    IF s = <<>> THEN s
    ELSE IF s[1] = " " THEN StripChars(Tail(s))
    ELSE IF s[Len(s)] = " " THEN StripChars(SubSeq(s, 1, Len(s) - 1))
    ELSE s

\* str.split(c): the pieces between the occurrences of c
RECURSIVE SplitOn(_, _)
SplitOn(s, c) ==
    IF \A i \in 1..Len(s) : s[i] # c THEN <<s>>
    ELSE LET i == CHOOSE k \in 1..Len(s) :
                      s[k] = c /\ \A j \in 1..(k - 1) : s[j] # c
         IN  <<SubSeq(s, 1, i - 1)>> \o SplitOn(SubSeq(s, i + 1, Len(s)), c)

\* one or two digits, as the strptime directives %H %I %M %S accept
DigitRun(s) == Len(s) \in 1..2 /\ \A i \in 1..Len(s) : IsDigit(s[i])

NumVal(s) ==
    IF Len(s) = 1 THEN DigitVal(s[1]) ELSE 10 * DigitVal(s[1]) + DigitVal(s[2])

\* strftime('%H:%M')
FormatHM(h, m) ==
    <<Digits[(h \div 10) + 1], Digits[(h % 10) + 1], ":",
      Digits[(m \div 10) + 1], Digits[(m % 10) + 1]>>

NoTime == [ok |-> FALSE, h |-> 0, m |-> 0]

\* datetime.strptime(s, '%H:%M:%S') when secs, datetime.strptime(s, '%H:%M') otherwise;
\* ok is FALSE where strptime raises ValueError
ParseClock(s, secs) ==
    LET f == SplitOn(s, ":")
        n == IF secs THEN 3 ELSE 2
    IN  IF /\ Len(f) = n
           /\ \A i \in 1..n : DigitRun(f[i])
           /\ NumVal(f[1]) <= 23
           /\ NumVal(f[2]) <= 59
           /\ (secs => NumVal(f[3]) <= 59)
        THEN [ok |-> TRUE, h |-> NumVal(f[1]), m |-> NumVal(f[2])]
        ELSE NoTime

\* datetime.strptime(s, '%I:%M %p') and, when secs, '%I:%M:%S %p'
ParseMeridiem(s, secs) ==
    LET n    == Len(s)
        mer  == IF n >= 2 /\ LowerChar(s[n]) = "m" /\ LowerChar(s[n - 1]) \in {"a", "p"}
                THEN LowerChar(s[n - 1]) ELSE ""
        body == IF n >= 2 THEN SubSeq(s, 1, n - 2) ELSE <<>>
        f    == SplitOn(StripChars(body), ":")
        k    == IF secs THEN 3 ELSE 2
    IN  IF /\ mer # ""
           /\ body # <<>>
           /\ body[Len(body)] = " "
           /\ Len(f) = k
           /\ \A i \in 1..k : DigitRun(f[i])
           /\ NumVal(f[1]) \in 1..12
           /\ NumVal(f[2]) <= 59
           /\ (secs => NumVal(f[3]) <= 59)
        THEN [ok |-> TRUE,
              h  |-> IF mer = "a"
                     THEN (IF NumVal(f[1]) = 12 THEN 0 ELSE NumVal(f[1]))
                     ELSE (IF NumVal(f[1]) = 12 THEN 12 ELSE NumVal(f[1]) + 12),
              m  |-> NumVal(f[2])]
        ELSE NoTime

\* the loop over ['%H:%M:%S', '%H:%M', '%I:%M %p', '%I:%M:%S %p']: first parse wins
ParseFormats(s) ==
    IF ParseClock(s, TRUE).ok THEN ParseClock(s, TRUE)
    ELSE IF ParseClock(s, FALSE).ok THEN ParseClock(s, FALSE)
    ELSE IF ParseMeridiem(s, FALSE).ok THEN ParseMeridiem(s, FALSE)
    ELSE ParseMeridiem(s, TRUE)

HasChar(s, c) == \E i \in 1..Len(s) : s[i] = c

\* time.lower() in ['none', 'nan']
IsNoneOrNan(s) ==
    LET low == [i \in 1..Len(s) |-> LowerChar(s[i])]
    IN  low \in {<<"n", "o", "n", "e">>, <<"n", "a", "n">>}

(***************************************************************************)
(* Cell texts as lexeme sequences                                          *)
(***************************************************************************)
IsSpace(x) == x \in {" ", "\n"}

\* str.lower() on one lexeme of the vocabulary
Lower(x) ==
    CASE x = "MasterClass" -> "masterclass"
      [] x = "Group" -> "group"
      [] x = "Room" -> "room"
      [] x = "Private" -> "private"
      [] x = "Lesson" -> "lesson"
      [] x = "Practice" -> "practice"
      [] x = "Acting" -> "acting"
      [] x = "Class" -> "class"
      [] x = "Lunch" -> "lunch"
      [] x = "Break" -> "break"
      [] x = "Duet" -> "duet"
      [] x = "Liya" -> "liya"
      [] x = "HUANG" -> "huang"
      [] x = "Harp" -> "harp"
      [] x = "Workshop" -> "workshop"
      [] x = "Briefing" -> "briefing"
      [] x = "Saturday" -> "saturday"
      [] x = "Bob" -> "bob"
      [] x = "Rehearsal" -> "rehearsal"
      [] x = "Concert" -> "concert"
      [] x = "Check" -> "check"
      [] x = "Maritime" -> "maritime"
      [] x = "Museum" -> "museum"
      [] x = "Pianist" -> "pianist"
      [] x = "Ann" -> "ann"
      [] x = "ANN" -> "ann"
      [] x = "Anna" -> "anna"
      [] x = "F1" -> "f1"
      [] x = "F12" -> "f12"
      [] x = "F2" -> "f2"
      [] OTHER -> x

LowerSeq(t) == [i \in 1..Len(t) |-> Lower(t[i])]

\* str.strip() on a text
RECURSIVE Strip(_)
Strip(t) ==
    IF t = <<>> THEN t
    ELSE IF IsSpace(t[1]) THEN Strip(Tail(t))
    ELSE IF IsSpace(t[Len(t)]) THEN Strip(SubSeq(t, 1, Len(t) - 1))
    ELSE t

\* p occurs in t at position i
OccursAt(p, t, i) ==
    /\ i >= 1
    /\ i + Len(p) - 1 <= Len(t)
    /\ \A k \in 1..Len(p) : t[i + k - 1] = p[k]

\* Python's `p in t` for strings, at lexeme granularity
Infix(p, t) == \E i \in 1..(Len(t) + 1) : OccursAt(p, t, i)

\* the pattern \b<prefix>\d+\b with the instrument's prefix letter
IsStudentId(x) == x \in {"F1", "F12", "F2"}

\* str.isdigit() on one lexeme
IsNumber(x) == x \in {"1", "2", "4", "5", "10", "25"}

\* a is a character prefix of b, for the number lexemes
NumberPrefix(a, b) ==
    \/ a = b
    \/ (a = "1" /\ b = "10")
    \/ (a = "2" /\ b = "25")

\* len() of one lexeme in characters, for the lexemes of the mapping keys
CharLen(x) ==
    CASE x \in {" "} -> 1
      [] x \in {"Bob"} -> 3
      [] x \in {"Room", "Liya", "liya"} -> 4
      [] x \in {"Class", "HUANG", "huang"} -> 5
      [] x \in {"Acting"} -> 6

RECURSIVE TextLen(_)
TextLen(t) == IF t = <<>> THEN 0 ELSE CharLen(t[1]) + TextLen(Tail(t))

\* re.search(r'\b' + re.escape(student) + r'\b', activity)
HasWord(t, w) == \E i \in 1..Len(t) : t[i] = w

\* `w in activity.lower()` for a lower-case word w
HasLowerWord(t, w) == \E i \in 1..Len(t) : Lower(t[i]) = w

\* re.findall(rf'\b{instrument_prefix}\d+\b', activity), as a set
FoundStudents(t) == {t[i] : i \in {k \in 1..Len(t) : IsStudentId(t[k])}}

\* re.sub(r'\b' + re.escape(student) + r'\b', '', activity)
RECURSIVE RemoveWord(_, _)
RemoveWord(t, w) ==
    IF t = <<>> THEN <<>>
    ELSE IF t[1] = w THEN RemoveWord(Tail(t), w)
    ELSE <<t[1]>> \o RemoveWord(Tail(t), w)

\* the whitespace run \s* at the head of t is dropped
RECURSIVE DropSpaces(_)
DropSpaces(t) ==
    IF t # <<>> /\ IsSpace(t[1]) THEN DropSpaces(Tail(t)) ELSE t

\* re.sub(rf'\b{instrument_prefix}\d+\b,?\s*', '', activity)
RECURSIVE RemoveIds(_)
RemoveIds(t) ==
    IF t = <<>> THEN <<>>
    ELSE IF IsStudentId(t[1])
         THEN LET r == Tail(t)
                  q == IF r # <<>> /\ r[1] = "," THEN Tail(r) ELSE r
              IN  RemoveIds(DropSpaces(q))
         ELSE <<t[1]>> \o RemoveIds(Tail(t))

\* the whitespace run \s* at the end of t is dropped
RECURSIVE DropTrailingSpaces(_)
DropTrailingSpaces(t) ==
    IF t # <<>> /\ IsSpace(t[Len(t)])
    THEN DropTrailingSpaces(SubSeq(t, 1, Len(t) - 1)) ELSE t

\* re.sub(r'\s*\([^)]+\)$', '', base_activity): the leftmost "(" from which
\* one or more non-")" characters run up to a final ")"
StripTrailingParen(t) ==
    LET n    == Len(t)
        open == {i \in 1..n : /\ t[i] = "("
                              /\ i + 1 < n
                              /\ \A k \in (i + 1)..(n - 1) : t[k] # ")"}
    IN  IF n >= 3 /\ t[n] = ")" /\ open # {}
        THEN LET i == CHOOSE j \in open : \A k \in open : j <= k
             IN  DropTrailingSpaces(SubSeq(t, 1, i - 1))
        ELSE t

(***************************************************************************)
(* Python containers                                                       *)
(***************************************************************************)
\* dict.get(k, default) on a dict given as its item sequence [key, val]
Get(d, k, default) ==
    IF \E i \in 1..Len(d) : d[i].key = k
    THEN d[CHOOSE i \in 1..Len(d) : d[i].key = k].val
    ELSE default

\* the loop `for mapped_teacher, room in room_mappings.items(): if
\* mapped_teacher.lower() == teacher.lower(): room_number = room; break`
GetIgnoreCase(d, k, default) ==
    LET hit == {i \in 1..Len(d) : LowerSeq(d[i].key) = LowerSeq(k)}
    IN  IF hit = {} THEN default
        ELSE d[CHOOSE i \in hit : \A j \in hit : i <= j].val

\* student_schedule.sort(key=lambda x: x[0]): stable, ascending by time string
RECURSIVE InsertByTime(_, _)
InsertByTime(x, s) ==
    IF s = <<>> THEN <<x>>
    ELSE IF ~StrLess(s[1].time, x.time) THEN <<x>> \o s
    ELSE <<s[1]>> \o InsertByTime(x, Tail(s))

RECURSIVE SortByTime(_)
SortByTime(s) ==
    IF s = <<>> THEN <<>>
    ELSE InsertByTime(s[1], SortByTime(Tail(s)))

\* sorted(list(all_time_slots))
RECURSIVE SortedTimes(_)
SortedTimes(S) ==
    IF S = {} THEN <<>>
    ELSE LET x    == CHOOSE y \in S : TRUE
             rest == SortedTimes(S \ {x})
             n    == Cardinality({i \in 1..Len(rest) : StrLess(rest[i], x)})
         IN  SubSeq(rest, 1, n) \o <<x>> \o SubSeq(rest, n + 1, Len(rest))

\* sorted(room_mappings.keys(), key=len, reverse=True): stable, longest first
RECURSIVE InsertByLen(_, _)
InsertByLen(x, s) ==
    IF s = <<>> THEN <<x>>
    ELSE IF TextLen(x) >= TextLen(s[1]) THEN <<x>> \o s
    ELSE <<s[1]>> \o InsertByLen(x, Tail(s))

RECURSIVE KeysLongestFirst(_)
KeysLongestFirst(d) ==
    IF d = <<>> THEN <<>>
    ELSE InsertByLen(d[1].key, KeysLongestFirst(Tail(d)))

\* all the orders in which a set can be iterated
Orders(S) ==
    {f \in [1..Cardinality(S) -> S] : \A x \in S : \E i \in 1..Cardinality(S) : f[i] = x}

(***************************************************************************)
(* Student resolution, days 1-5: the rules applied to one cell             *)
(***************************************************************************)
Entry(time, text) == [time |-> time, text |-> text]

\* music_instrument, from the file name <instrument>-<camp>-time-table.xlsx
music_instrument == "Flute"

\* the teacher of a masterclass cell: the longest key of room_mappings that
\* occurs in the cell, else the column's header
MasterclassTeacher(activity, header_teacher, rooms) ==
    LET keys == KeysLongestFirst(rooms)
        hit  == {k \in 1..Len(keys) : Infix(keys[k], activity)}
    IN  IF hit = {} \/ keys[CHOOSE k \in hit : \A j \in hit : k <= j] = <<>>
        THEN header_teacher
        ELSE keys[CHOOSE k \in hit : \A j \in hit : k <= j]

\* MasterclassDesc with the room of the column's teacher, whoever the cell names
MasterclassDescOfColumn(activity, header_teacher, rooms) ==
    LET room_number   == Get(rooms, header_teacher, <<"TBD">>)
        base_activity == Strip(StripTrailingParen(Strip(RemoveIds(activity))))
    IN  base_activity \o <<"\n", "(">> \o room_number \o <<")">>

\* lines 285-310: desc of a masterclass cell that names the student
MasterclassDesc(activity, header_teacher, rooms) ==
    LET teacher       == MasterclassTeacher(activity, header_teacher, rooms)
        room_number   == Get(rooms, teacher, <<"TBD">>)
        base_activity == Strip(StripTrailingParen(Strip(RemoveIds(activity))))
    IN  base_activity \o <<"\n", "(">> \o room_number \o <<")">>

\* re.search(r'lesson with (.+?) & pianist', text): the leftmost match with the
\* shortest group; low is the text the pattern is matched on, src the text the
\* group is taken from (the same positions)
PianistMatch(low, src) ==
    LET n      == Len(low)
        starts == {i \in 1..n : /\ i + 8 <= n
                                /\ low[i] = "lesson" /\ low[i + 1] = " "
                                /\ low[i + 2] = "with" /\ low[i + 3] = " "}
        Ends(i) == {j \in (i + 5)..(n - 3) :
                       /\ low[j] = " " /\ low[j + 1] = "&"
                       /\ low[j + 2] = " " /\ low[j + 3] = "pianist"
                       /\ \A k \in (i + 4)..(j - 1) : low[k] # "\n"}
        good   == {i \in starts : Ends(i) # {}}
    IN  IF good = {} THEN [ok |-> FALSE, group |-> <<>>]
        ELSE LET i == CHOOSE a \in good : \A b \in good : a <= b
                 j == CHOOSE a \in Ends(i) : \A b \in Ends(i) : a <= b
             IN  [ok |-> TRUE, group |-> SubSeq(src, i + 4, j - 1)]

\* DirectDesc without the room line of a private lesson
DirectDescNoRoom(activity, student, header_teacher, rooms) ==
    LET cleaned_activity  == Strip(RemoveWord(activity, student))
        is_private_lesson ==
            \/ Strip(activity) = <<student>>
            \/ Infix(<<"private", " ", "lesson">>, LowerSeq(cleaned_activity))
        pianist_lesson_match ==
            PianistMatch(LowerSeq(cleaned_activity), LowerSeq(cleaned_activity))
        original_match == PianistMatch(LowerSeq(activity), activity)
        teacher_name   == IF original_match.ok THEN Strip(original_match.group)
                          ELSE Strip(pianist_lesson_match.group)
        room_number    == IF GetIgnoreCase(rooms, header_teacher, <<>>) # <<>>
                          THEN GetIgnoreCase(rooms, header_teacher, <<>>)
                          ELSE Get(rooms, header_teacher, <<>>)
        private_desc   == IF cleaned_activity = <<>>
                          THEN <<"Private", " ", "Lesson", " ", "with", " ">>
                                   \o header_teacher
                          ELSE cleaned_activity
        practice       == <<"Practice", "\n", "(", music_instrument, " ",
                            "practice", " ", "room", ")">>
    IN  IF pianist_lesson_match.ok
        THEN <<"Private", " ", "Lesson", " ", "with", " ">> \o teacher_name
                 \o <<" ", "&", " ", "pianist", "\n", "(">>
                 \o Get(rooms, header_teacher, <<"TBD">>) \o <<")">>
        ELSE IF is_private_lesson
        THEN IF header_teacher # <<>>
             THEN private_desc
             ELSE practice
        ELSE IF LowerSeq(cleaned_activity) = <<"practice">> THEN practice
        ELSE cleaned_activity

\* lines 313-363: desc of a cell that names the student as a whole word
DirectDesc(activity, student, header_teacher, rooms) ==
    LET cleaned_activity  == Strip(RemoveWord(activity, student))
        is_private_lesson ==
            \/ Strip(activity) = <<student>>
            \/ Infix(<<"private", " ", "lesson">>, LowerSeq(cleaned_activity))
        pianist_lesson_match ==
            PianistMatch(LowerSeq(cleaned_activity), LowerSeq(cleaned_activity))
        original_match == PianistMatch(LowerSeq(activity), activity)
        teacher_name   == IF original_match.ok THEN Strip(original_match.group)
                          ELSE Strip(pianist_lesson_match.group)
        room_number    == IF GetIgnoreCase(rooms, header_teacher, <<>>) # <<>>
                          THEN GetIgnoreCase(rooms, header_teacher, <<>>)
                          ELSE Get(rooms, header_teacher, <<>>)
        private_desc   == IF cleaned_activity = <<>>
                          THEN <<"Private", " ", "Lesson", " ", "with", " ">>
                                   \o header_teacher
                          ELSE cleaned_activity
        practice       == <<"Practice", "\n", "(", music_instrument, " ",
                            "practice", " ", "room", ")">>
    IN  IF pianist_lesson_match.ok
        THEN <<"Private", " ", "Lesson", " ", "with", " ">> \o teacher_name
                 \o <<" ", "&", " ", "pianist", "\n", "(">>
                 \o Get(rooms, header_teacher, <<"TBD">>) \o <<")">>
        ELSE IF is_private_lesson
        THEN IF header_teacher # <<>>
             THEN IF room_number # <<>>
                  THEN private_desc \o <<"\n", "(">> \o room_number \o <<")">>
                  ELSE private_desc
             ELSE practice
        ELSE IF LowerSeq(cleaned_activity) = <<"practice">> THEN practice
        ELSE cleaned_activity

\* activity_body.replace(',', ' ').split(): the maximal runs of lexemes that are
\* neither whitespace nor a comma
RECURSIVE SplitParts(_, _)
SplitParts(t, cur) ==
    IF t = <<>> THEN (IF cur = <<>> THEN <<>> ELSE <<cur>>)
    ELSE IF IsSpace(t[1]) \/ t[1] = ","
         THEN (IF cur = <<>> THEN <<>> ELSE <<cur>>) \o SplitParts(Tail(t), <<>>)
         ELSE SplitParts(Tail(t), Append(cur, t[1]))

\* part.isdigit()
IsDigitPart(part) == Len(part) = 1 /\ IsNumber(part[1])

\* ' '.join(parts)
RECURSIVE Join(_)
Join(parts) ==
    IF parts = <<>> THEN <<>>
    ELSE IF Len(parts) = 1 THEN parts[1]
    ELSE parts[1] \o <<" ">> \o Join(Tail(parts))

RECURSIVE SelectParts(_, _)
SelectParts(parts, digits) ==
    IF parts = <<>> THEN <<>>
    ELSE (IF IsDigitPart(parts[1]) = digits THEN <<parts[1]>> ELSE <<>>)
             \o SelectParts(Tail(parts), digits)

\* lines 366-380: the group names and the activity name of "Group a, b <name>"
GroupParts(activity) == SplitParts(Strip(Tail(activity)), <<>>)

InvolvedGroups(activity) ==
    LET nums == SelectParts(GroupParts(activity), TRUE)
    IN  {<<"Group", " ", nums[k][1]>> : k \in 1..Len(nums)}

ActivityName(activity) == Strip(Join(SelectParts(GroupParts(activity), FALSE)))

StudentGroups(groups, student) ==
    IF student \in DOMAIN groups THEN groups[student] ELSE {}

\* ComplexGroupDesc with "TBD" for an acting class whose room is not mapped
ComplexGroupDescTBD(activity, rooms) ==
    LET activity_name == ActivityName(activity)
    IN  IF Infix(<<"acting", " ", "class">>, LowerSeq(activity_name))
        THEN <<"Acting", " ", "Class", "\n", "(">>
                 \o Get(rooms, <<"Room", " ", "Acting", " ", "Class">>, <<"TBD">>)
                 \o <<")">>
        ELSE IF HasLowerWord(activity_name, "group") \/ HasLowerWord(activity_name, "room")
        THEN activity_name
        ELSE activity_name \o <<"\n", "(", "Group", ")">>

\* lines 384-395: desc of a "Group a, b <name>" cell of one of the student's groups
ComplexGroupDesc(activity, rooms) ==
    LET activity_name == ActivityName(activity)
    IN  IF Infix(<<"acting", " ", "class">>, LowerSeq(activity_name))
        THEN <<"Acting", " ", "Class", "\n", "(">>
                 \o Get(rooms, <<"Room", " ", "Acting", " ", "Class">>,
                        <<"Room", " ", "Acting", " ", "Class">>)
                 \o <<")">>
        ELSE IF HasLowerWord(activity_name, "group") \/ HasLowerWord(activity_name, "room")
        THEN activity_name
        ELSE activity_name \o <<"\n", "(", "Group", ")">>

\* activity.startswith(group_name), a comparison of characters
StartsWith(activity, group_name) ==
    LET n == Len(group_name)
    IN  /\ n >= 1
        /\ Len(activity) >= n
        /\ \A k \in 1..(n - 1) : activity[k] = group_name[k]
        /\ NumberPrefix(group_name[n], activity[n])

\* re.search(r'\(Room\s+(.+?)\)', activity, re.IGNORECASE)
RoomMatch(activity) ==
    LET n      == Len(activity)
        First(i) == CHOOSE s \in (i + 3)..(n + 1) :
                        /\ (s <= n => ~IsSpace(activity[s]))
                        /\ \A k \in (i + 2)..(s - 1) : IsSpace(activity[k])
        Close(i) == {e \in (First(i) + 1)..n :
                        /\ activity[e] = ")"
                        /\ \A k \in First(i)..(e - 1) : activity[k] # "\n"}
        starts == {i \in 1..n : /\ i + 4 <= n
                                /\ activity[i] = "("
                                /\ Lower(activity[i + 1]) = "room"
                                /\ IsSpace(activity[i + 2])
                                /\ Close(i) # {}}
    IN  IF starts = {} THEN [ok |-> FALSE, group |-> <<>>]
        ELSE LET i == CHOOSE a \in starts : \A b \in starts : a <= b
                 e == CHOOSE a \in Close(i) : \A b \in Close(i) : a <= b
             IN  [ok |-> TRUE, group |-> SubSeq(activity, First(i), e - 1)]

\* the desc of a "Group n" cell with the matched group's name in place of the room
SimpleGroupDescNamed(activity, group_name, header_teacher, rooms) ==
    <<"Ensemble", "\n", "(">> \o group_name \o <<")">>

\* lines 404-418: desc of a "Group n" cell of one of the student's groups
SimpleGroupDesc(activity, group_name, header_teacher, rooms) ==
    LET room_match  == RoomMatch(activity)
        room_number == IF GetIgnoreCase(rooms, header_teacher, <<"TBD">>) = <<"TBD">>
                       THEN Get(rooms, header_teacher, <<"TBD">>)
                       ELSE GetIgnoreCase(rooms, header_teacher, <<"TBD">>)
    IN  IF room_match.ok
        THEN <<"Ensemble", "\n", "(", "Room", " ">> \o room_match.group \o <<")">>
        ELSE <<"Ensemble", "\n", "(">> \o room_number \o <<")">>

\* the state of the loop over one row's cells: activity_found_for_timeslot and
\* the entries appended to student_schedule
NotFound == [found |-> FALSE, out |-> <<>>]

Found(acc, time, desc) == [found |-> TRUE, out |-> Append(acc.out, Entry(time, desc))]

\* lines 285-310
MasterclassStep(acc, time, activity, student, header_teacher, rooms) ==
    IF /\ ~acc.found
       /\ HasLowerWord(activity, "masterclass")
       /\ HasWord(activity, student)
    THEN Found(acc, time, MasterclassDesc(activity, header_teacher, rooms))
    ELSE acc

\* the direct match without the test of activity_found_for_timeslot
DirectStepUnguarded(acc, time, activity, student, header_teacher, rooms) ==
    IF HasWord(activity, student)
    THEN Found(acc, time, DirectDesc(activity, student, header_teacher, rooms))
    ELSE acc

\* lines 313-363
DirectStep(acc, time, activity, student, header_teacher, rooms) ==
    IF ~acc.found /\ HasWord(activity, student)
    THEN Found(acc, time, DirectDesc(activity, student, header_teacher, rooms))
    ELSE acc

\* lines 366-395
ComplexGroupStep(acc, time, activity, student, rooms, groups) ==
    IF /\ ~acc.found
       /\ Lower(activity[1]) = "group"
       /\ HasWord(activity, ",")
       /\ StudentGroups(groups, student) \cap InvolvedGroups(activity) # {}
    THEN Found(acc, time, ComplexGroupDesc(activity, rooms))
    ELSE acc

\* SimpleGroupStep with an entry for every group of the student that matches
SimpleGroupStepEachGroup(acc, time, activity, header_teacher, rooms, order) ==
    LET hit == {k \in 1..Len(order) : StartsWith(activity, order[k])}
    IN  IF ~acc.found /\ Lower(activity[1]) = "group" /\ hit # {}
        THEN [found |-> TRUE,
              out   |-> acc.out \o
                            [k \in 1..Cardinality(hit) |->
                                Entry(time, SimpleGroupDesc(activity, <<>>, header_teacher,
                                                            rooms))]]
        ELSE acc

\* lines 398-420; order is the order in which the set student_groups is iterated
SimpleGroupStep(acc, time, activity, header_teacher, rooms, order) ==
    LET hit == {k \in 1..Len(order) : StartsWith(activity, order[k])}
    IN  IF ~acc.found /\ Lower(activity[1]) = "group" /\ hit # {}
        THEN Found(acc, time,
                   SimpleGroupDesc(activity, order[CHOOSE k \in hit : \A j \in hit : k <= j],
                                   header_teacher, rooms))
        ELSE acc

\* lines 280-420: the body of `for i, activity in enumerate(activities)`
CellStep(acc, time, activity, student, header_teacher, rooms, groups, order) ==
    IF activity = <<>> THEN acc
    ELSE SimpleGroupStep(
             ComplexGroupStep(
                 DirectStep(
                     MasterclassStep(acc, time, activity, student, header_teacher, rooms),
                     time, activity, student, header_teacher, rooms),
                 time, activity, student, rooms, groups),
             time, activity, header_teacher, rooms, order)

\* the loop `for i, activity in enumerate(activities)` over the first n cells
RECURSIVE ResolveCells(_, _, _, _, _, _, _, _)
ResolveCells(n, time, activities, student, teachers, rooms, groups, order) ==
    IF n = 0 THEN NotFound
    ELSE CellStep(ResolveCells(n - 1, time, activities, student, teachers, rooms,
                               groups, order),
                  time, activities[n], student, teachers[n], rooms, groups, order)

\* lines 130-153
common_activities ==
    <<
      <<"Welcome">>,
      <<"Lunch">>,
      <<"Break">>,
      <<"Ensemble", " ", "Coaching">>,
      <<"Workshop">>,
      <<"Toilet", " ", "Break">>,
      <<"Rehearsal", " ", "for", " ", "Students", " ", "and", " ", "Friends", " ", "Concert">>,
      <<"Lina", " ", "Summer", " ", "Camp", " ", "of", " ", "Music", " ", "Students", " ", "&", " ", "Friends", " ", "Concert">>,
      <<"After", " ", "concert", " ", "refreshment", " ", "(", "Maritime", " ", "Museum", ")">>,
      <<"Group", " ", "Activity">>,
      <<"Briefing", " ", "for", " ", "Saturday">>,
      <<"Yoga", " ", "Class">>,
      <<"Harp", " ", "Regulation", " ", "Workshop">>,
      <<"Harp", " ", "Regulation", " ", "Class">>,
      <<"Harp", " ", "Regulation">>,
      <<"Cello", " ", "Regulation", " ", "&", " ", "Maintance", " ", "Class">>,
      <<"Cello", " ", "Regulation", " ", "&", " ", "Maintenance", " ", "Class">>,
      <<"Workshop", " ", "-", " ", "Warm", " ", "Up">>,
      <<"Cello", " ", "MasterClass">>,
      <<"MasterClass">>,
      <<"Flute", " ", "MasterClass">>,
      <<"Harp", " ", "MasterClass">>
    >>

\* IsCommon by equality with a name of the list
IsCommonExact(activity) ==
    \E k \in 1..Len(common_activities) : common_activities[k] = activity

IsCommon(activity) ==
    \E k \in 1..Len(common_activities) : Infix(common_activities[k], activity)

\* CommonActivity without the test that skips the masterclasses of other students
CommonActivityOfAnyone(activities, student) ==
    LET ok == {i \in 1..Len(activities) :
                  /\ activities[i] # <<>>
                  /\ IsCommon(activities[i])}
    IN  IF ok = {} THEN <<>> ELSE activities[CHOOSE i \in ok : \A j \in ok : i <= j]

\* lines 426-443: the cell the fallback emits, <<>> when there is none
CommonActivity(activities, student) ==
    LET ok == {i \in 1..Len(activities) :
                  /\ activities[i] # <<>>
                  /\ ~(/\ HasLowerWord(activities[i], "masterclass")
                       /\ FoundStudents(activities[i]) # {}
                       /\ student \notin FoundStudents(activities[i]))
                  /\ IsCommon(activities[i])}
    IN  IF ok = {} THEN <<>> ELSE activities[CHOOSE i \in ok : \A j \in ok : i <= j]

check_in_activity == <<"Check", " ", "in", " ", "Maritime", " ", "Museum", "\n", "Briefing", " ", "for", " ", "Saturday", " ", "Concert", "\n", "Maritime", " ", "Museum", " ", "Tour">>

FREE_TIME_BLOCK == <<"DAY_6_FREE_TIME_BLOCK">>

(***************************************************************************)
(* Student resolution: one row of one sheet                                *)
(***************************************************************************)
Minutes(h, m) == 60 * h + m

\* StudentTime with the string kept as the key whether or not it holds a colon
StudentTimeAnyText(time_val) ==
    IF time_val.kind \in {"time", "datetime"}
    THEN FormatHM(time_val.h, time_val.m)
    ELSE LET time_str == StripChars(time_val.s)
             parsed   == ParseFormats(time_str)
         IN  IF parsed.ok THEN FormatHM(parsed.h, parsed.m)
             ELSE time_str

\* lines 201-222: the time key of a row, <<>> when none was recognised.
\* A raw time value is [kind |-> "time" | "datetime", h, m] or
\* [kind |-> "str", s |-> the characters].
StudentTime(time_val) ==
    IF time_val.kind \in {"time", "datetime"}
    THEN FormatHM(time_val.h, time_val.m)
    ELSE LET time_str == StripChars(time_val.s)
             parsed   == ParseFormats(time_str)
         IN  IF parsed.ok THEN FormatHM(parsed.h, parsed.m)
             ELSE IF HasChar(time_str, ":") THEN time_str
             ELSE <<>>

\* CheckInEntries with the fourth entry at 11:00
CheckInEntriesLate ==
    <<Entry(<<"1", "0", ":", "0", "0">>, check_in_activity),
      Entry(<<"1", "0", ":", "1", "5">>, check_in_activity),
      Entry(<<"1", "0", ":", "3", "0">>, check_in_activity),
      Entry(<<"1", "1", ":", "0", "0">>, check_in_activity)>>

\* the four entries of the check-in expansion, lines 262-267
CheckInEntries ==
    <<Entry(<<"1", "0", ":", "0", "0">>, check_in_activity),
      Entry(<<"1", "0", ":", "1", "5">>, check_in_activity),
      Entry(<<"1", "0", ":", "3", "0">>, check_in_activity),
      Entry(<<"1", "0", ":", "4", "5">>, check_in_activity)>>

\* StudentRowAt with the weekday row of 17:00 itself kept
StudentRowAtLate(st, time, clock, student, day_index, row, teachers, rooms, groups, order) ==
    LET mins       == Minutes(clock.h, clock.m)
        is_day_6   == (day_index + 1 = 6)
        activities == [i \in 1..Len(row.cells) |-> Strip(row.cells[i])]
        nonempty   == {i \in 1..Len(activities) : activities[i] # <<>>}
        first      == activities[CHOOSE i \in nonempty : \A j \in nonempty : i <= j]
        resolved   == ResolveCells(Len(activities), time, activities, student,
                                   teachers, rooms, groups, order)
        fallback   == Entry(time, CommonActivity(activities, student))
        Add(es)    == [st EXCEPT !.schedule = @ \o es]
    IN  IF time = <<>> \/ StripChars(time) = <<>> \/ IsNoneOrNan(time) THEN st
        ELSE IF day_index < 5 /\ clock.ok /\ mins > Minutes(17, 0) THEN st
        ELSE IF day_index >= 5 /\ is_day_6 /\ clock.ok /\ mins >= Minutes(17, 0) THEN st
        ELSE IF day_index >= 5 /\ is_day_6 /\ clock.ok /\ mins >= Minutes(16, 30)
        THEN Add(<<Entry(time, FREE_TIME_BLOCK)>>)
        ELSE IF is_day_6
        THEN IF nonempty = {} THEN Add(<<fallback>>)
             ELSE IF Infix(<<"Check", " ", "in", " ", "Maritime", " ", "Museum">>, first)
             THEN IF st.added THEN st
                  ELSE [schedule |-> st.schedule \o CheckInEntries, added |-> TRUE]
             ELSE Add(<<Entry(time, first)>>)
        ELSE IF resolved.found THEN Add(resolved.out)
        ELSE Add(<<fallback>>)

\* lines 224-449: the body of `for row in schedule_rows` for one student, from the
\* time key and its reading as a clock on; st is [schedule |-> student_schedule,
\* added |-> day_6_check_in_added]
StudentRowAt(st, time, clock, student, day_index, row, teachers, rooms, groups, order) ==
    LET mins       == Minutes(clock.h, clock.m)
        is_day_6   == (day_index + 1 = 6)
        activities == [i \in 1..Len(row.cells) |-> Strip(row.cells[i])]
        nonempty   == {i \in 1..Len(activities) : activities[i] # <<>>}
        first      == activities[CHOOSE i \in nonempty : \A j \in nonempty : i <= j]
        resolved   == ResolveCells(Len(activities), time, activities, student,
                                   teachers, rooms, groups, order)
        fallback   == Entry(time, CommonActivity(activities, student))
        Add(es)    == [st EXCEPT !.schedule = @ \o es]
    IN  IF time = <<>> \/ StripChars(time) = <<>> \/ IsNoneOrNan(time) THEN st
        ELSE IF day_index < 5 /\ clock.ok /\ mins >= Minutes(17, 0) THEN st
        ELSE IF day_index >= 5 /\ is_day_6 /\ clock.ok /\ mins >= Minutes(17, 0) THEN st
        ELSE IF day_index >= 5 /\ is_day_6 /\ clock.ok /\ mins >= Minutes(16, 30)
        THEN Add(<<Entry(time, FREE_TIME_BLOCK)>>)
        ELSE IF is_day_6
        THEN IF nonempty = {} THEN Add(<<fallback>>)
             ELSE IF Infix(<<"Check", " ", "in", " ", "Maritime", " ", "Museum">>, first)
             THEN IF st.added THEN st
                  ELSE [schedule |-> st.schedule \o CheckInEntries, added |-> TRUE]
             ELSE Add(<<Entry(time, first)>>)
        ELSE IF resolved.found THEN Add(resolved.out)
        ELSE Add(<<fallback>>)

\* lines 200-449: the body of `for row in schedule_rows` for one student
StudentRowStep(st, student, day_index, row, teachers, rooms, groups, order) ==
    LET time == StudentTime(row.time)
    IN  StudentRowAt(st, time, ParseClock(time, FALSE), student, day_index, row, teachers,
                     rooms, groups, order)

(***************************************************************************)
(* Student assembly: one day column of the output sheet                    *)
(***************************************************************************)
\* time_to_row = {time: i + 3 for i, time in enumerate(sorted_times)}
StudentFirstRow == 3

RowOf(time, sorted_times, first_row) ==
    first_row - 1 + (CHOOSE k \in 1..Len(sorted_times) : sorted_times[k] = time)

\* lines 497-502: 1 + the number of entries after idx that repeat its activity
RECURSIVE RowSpan(_, _)
RowSpan(todays_schedule, idx) ==
    IF idx < Len(todays_schedule)
       /\ todays_schedule[idx + 1].text = todays_schedule[idx].text
    THEN 1 + RowSpan(todays_schedule, idx + 1)
    ELSE 1

\* a cell written to the output sheet: its row, the rows it is merged over, the
\* resolved text it carries, and whether the text is replaced by "" (a sentinel)
Block(row, span, text, blank) == [row |-> row, span |-> span, text |-> text, blank |-> blank]

\* student_ws.cell(row=start_row, column=current_col, value=cell_activity): the
\* value written last is the cell's value
WriteCell(cells, b) == SelectSeq(cells, LAMBDA c : c.row # b.row) \o <<b>>

\* lines 485-538: the loop `for idx, (time, activity) in enumerate(todays_schedule)`
\* over the first n entries; [merged |-> merged_cells_in_col, cells |-> the cells
\* written, each with the rows it is merged over]
RECURSIVE StudentColumn(_, _, _)
StudentColumn(todays_schedule, sorted_times, n) ==
    IF n = 0 THEN [merged |-> {}, cells |-> <<>>]
    ELSE LET acc       == StudentColumn(todays_schedule, sorted_times, n - 1)
             activity  == todays_schedule[n].text
             start_row == RowOf(todays_schedule[n].time, sorted_times, StudentFirstRow)
             row_span  == RowSpan(todays_schedule, n)
         IN  IF start_row \in acc.merged THEN acc
             ELSE [merged |-> IF row_span > 1
                              THEN acc.merged \cup (start_row..(start_row + row_span - 1))
                              ELSE acc.merged,
                   cells  |-> WriteCell(acc.cells,
                                        Block(start_row, row_span, activity,
                                              activity = FREE_TIME_BLOCK))]

(***************************************************************************)
(* Teacher resolution: the text of one cell of the teacher's column        *)
(***************************************************************************)
\* the characters of lexeme x after its prefix a, "" when a is no proper prefix of x
Rest(a, x) ==
    CASE a = "F1" /\ x = "F12" -> "2"
      [] a = "1" /\ x = "10" -> "0"
      [] a = "1" /\ x = "12" -> "2"
      [] a = "2" /\ x = "25" -> "5"
      [] OTHER -> ""

\* the lexeme spelled by lexeme a followed by the characters r
Glue(a, r) ==
    CASE a = "F1" /\ r = "2" -> "F12"
      [] a = "Amy" /\ r = "2" -> "Amy2"
      [] a = "Coaching" /\ r = "0" -> "Coaching0"
      [] a = "Coaching" /\ r = "2" -> "Coaching2"
      [] a = "Coaching" /\ r = "5" -> "Coaching5"
      [] r = "" -> a

\* t followed directly, without a separator, by the characters r
GlueLast(t, r) ==
    IF r = "" THEN t
    ELSE IF t = <<>> THEN <<r>>
    ELSE SubSeq(t, 1, Len(t) - 1) \o <<Glue(t[Len(t)], r)>>

\* activity.replace(student_id, student_name), a replacement of characters:
\* it also rewrites the identifier where it starts a longer word
RECURSIVE ReplaceId(_, _, _)
ReplaceId(t, student_id, student_name) ==
    IF t = <<>> THEN <<>>
    ELSE IF t[1] = student_id
         THEN student_name \o ReplaceId(Tail(t), student_id, student_name)
    ELSE IF Rest(student_id, t[1]) # ""
         THEN GlueLast(student_name, Rest(student_id, t[1]))
                  \o ReplaceId(Tail(t), student_id, student_name)
    ELSE <<t[1]>> \o ReplaceId(Tail(t), student_id, student_name)

\* re.findall(rf'\b{instrument_prefix}\d+\b', activity), in order of occurrence
RECURSIVE StudentIdsIn(_)
StudentIdsIn(t) ==
    IF t = <<>> THEN <<>>
    ELSE (IF IsStudentId(t[1]) THEN <<t[1]>> ELSE <<>>) \o StudentIdsIn(Tail(t))

\* lines 192-195: `for student_id in student_ids: activity = activity.replace(...)`
RECURSIVE ReplaceIds(_, _, _)
ReplaceIds(t, student_ids, names) ==
    IF student_ids = <<>> THEN t
    ELSE ReplaceIds(ReplaceId(t, student_ids[1],
                              Get(names, student_ids[1], <<student_ids[1]>>)),
                    Tail(student_ids), names)

EnsembleCoaching == <<" ", "Ensemble", " ", "Coaching">>

\* line 187: re.sub(r'(Group\s+\d+)(?! Ensemble Coaching)', r'\1 Ensemble Coaching',
\* activity).  Where the suffix already follows a number of several digits, \d+
\* gives back its last digit and the suffix is inserted before that digit.
RECURSIVE RenameGroups(_)
RenameGroups(t) ==
    IF t = <<>> THEN <<>>
    ELSE IF Len(t) >= 3 /\ t[1] = "Group" /\ IsSpace(t[2]) /\ IsNumber(t[3])
    THEN LET rest == SubSeq(t, 4, Len(t))
         IN  IF ~OccursAt(EnsembleCoaching, rest, 1)
             THEN <<"Group", t[2], t[3]>> \o EnsembleCoaching \o RenameGroups(rest)
             ELSE IF \E a \in {"1", "2"} : Rest(a, t[3]) # ""
             THEN LET a == CHOOSE b \in {"1", "2"} : Rest(b, t[3]) # ""
                  IN  <<"Group", t[2], a>>
                          \o GlueLast(EnsembleCoaching, Rest(a, t[3]))
                          \o RenameGroups(rest)
             ELSE <<"Group", t[2], t[3]>> \o RenameGroups(rest)
    ELSE <<t[1]>> \o RenameGroups(Tail(t))

\* lines 161-162: the student of "<id> Private Lesson with <teacher> & pianist"
\* (whitespace runs of one character), "" when the pattern does not occur
PianistStudent(activity) ==
    LET low == LowerSeq(activity)
        n   == Len(activity)
        hit == {i \in 1..n :
                   /\ IsStudentId(activity[i])
                   /\ i + 12 <= n
                   /\ IsSpace(low[i + 1]) /\ low[i + 2] = "private"
                   /\ IsSpace(low[i + 3]) /\ low[i + 4] = "lesson"
                   /\ IsSpace(low[i + 5]) /\ low[i + 6] = "with"
                   /\ IsSpace(low[i + 7])
                   /\ \E j \in (i + 9)..(n - 3) :
                          /\ IsSpace(low[j]) /\ low[j + 1] = "&"
                          /\ IsSpace(low[j + 2]) /\ low[j + 3] = "pianist"
                          /\ \A k \in (i + 8)..(j - 1) : low[k] # "\n"}
    IN  IF hit = {} THEN "" ELSE activity[CHOOSE i \in hit : \A j \in hit : i <= j]

\* re.sub(r'\*+$', '', text).strip()
RECURSIVE StripStars(_)
StripStars(t) ==
    IF t # <<>> /\ t[Len(t)] = "*" THEN StripStars(SubSeq(t, 1, Len(t) - 1))
    ELSE Strip(t)

\* lines 169-184: a "Harp MasterClass by <teacher>" cell without a room gets the
\* room of that teacher
HarpMasterclass(activity, rooms) ==
    LET low == LowerSeq(activity)
        n   == Len(activity)
        hit == {i \in 1..n : /\ i + 6 <= n
                             /\ low[i] = "harp" /\ IsSpace(low[i + 1])
                             /\ low[i + 2] = "masterclass" /\ IsSpace(low[i + 3])
                             /\ low[i + 4] = "by" /\ IsSpace(low[i + 5])
                             /\ low[i + 6] # "\n"}
        i   == CHOOSE a \in hit : \A b \in hit : a <= b
        end == CHOOSE e \in (i + 7)..(n + 1) :
                   /\ (e <= n => activity[e] \in {"*", "\n"})
                   /\ \A k \in (i + 7)..(e - 1) : activity[k] \notin {"*", "\n"}
        masterclass_teacher == StripStars(Strip(SubSeq(activity, i + 6, end - 1)))
    IN  IF /\ Infix(<<"harp", " ", "masterclass">>, low)
           /\ HasLowerWord(activity, "by")
           /\ hit # {}
           /\ (end > n \/ activity[end] = "*")
           /\ (~HasWord(activity, "(") \/ ~HasWord(activity, ")"))
        THEN StripStars(activity) \o <<"\n", "(">>
                 \o Get(rooms, masterclass_teacher, <<"TBD">>) \o <<")">>
        ELSE activity

\* lines 155-195: the text kept for a cell of a day other than day 6
TeacherWeekdayText(cell, rooms, names) ==
    LET low == LowerSeq(cell)
    IN  IF cell = <<>> THEN <<>>
        ELSE IF low[1] = "workshop"
                \/ OccursAt(<<"briefing", " ", "for", " ", "saturday">>, low, 1)
        THEN <<>>
        ELSE IF PianistStudent(cell) # ""
        THEN Get(names, PianistStudent(cell), <<PianistStudent(cell)>>)
                 \o <<" ", "with", " ", "pianist">>
        ELSE LET renamed == RenameGroups(HarpMasterclass(cell, rooms))
             IN  ReplaceIds(renamed, StudentIdsIn(renamed), names)

\* TeacherSaturdayText with every cell kept as it is
TeacherSaturdayTextVerbatim(cell) == cell

\* lines 150-153: the text kept for a cell of day 6
TeacherSaturdayText(cell) ==
    IF \/ /\ HasWord(cell, "Lunch")
          /\ Infix(<<"Dress", " ", "Up", ",", " ", "Warm", " ", "Up">>, cell)
       \/ Infix(<<"Concert", " ", "call", " ", "time">>, cell)
    THEN <<"Lunch">>
    ELSE cell

(***************************************************************************)
(* Teacher resolution: one row of one sheet, and the end of a day          *)
(***************************************************************************)
\* line 130: strftime for a datetime.time, str(time_val).strip() for anything else
TeacherTime(time_val) ==
    IF time_val.kind = "time" THEN FormatHM(time_val.h, time_val.m)
    ELSE IF time_val.kind = "datetime"
    THEN <<"2", "0", "2", "5", "-", "0", "7", "-", "1", "4", " ">>
             \o FormatHM(time_val.h, time_val.m) \o <<":", "0", "0">>
    ELSE StripChars(time_val.s)

\* daily_schedule_map[time] = activity, on the dict's item sequence
Put(d, time, text) ==
    IF \E i \in 1..Len(d) : d[i].time = time
    THEN [i \in 1..Len(d) |-> IF d[i].time = time THEN Entry(time, text) ELSE d[i]]
    ELSE Append(d, Entry(time, text))

\* lines 115-123: header.index(teacher) as an index into the row's cells; on day 6
\* the first teacher column when the teacher is not in the header; 0 when the
\* sheet is skipped for this teacher
TeacherColumn(teachers, teacher, day_index) ==
    LET hit == {c \in 1..Len(teachers) : teachers[c] = teacher}
    IN  IF hit # {} THEN CHOOSE c \in hit : \A d \in hit : c <= d
        ELSE IF day_index + 1 = 6 THEN 1
        ELSE 0

\* TeacherRowStep without the day-6 test against 11:00
TeacherRowStepAllDay(map, day_index, row, col, rooms, names) ==
    LET time     == TeacherTime(row.time)
        clock    == ParseClock(time, FALSE)
        mins     == Minutes(clock.h, clock.m)
        is_day_6 == (day_index + 1 = 6)
        cell     == IF col <= Len(row.cells) THEN Strip(row.cells[col]) ELSE <<>>
        activity == IF is_day_6 THEN TeacherSaturdayText(cell)
                    ELSE TeacherWeekdayText(cell, rooms, names)
    IN  IF time = <<>> THEN map
        ELSE IF clock.ok /\ mins >= Minutes(22, 0) THEN map
        ELSE IF activity # <<>> THEN Put(map, time, activity)
        ELSE map

\* lines 128-198: the body of `for row in schedule_rows` for one teacher
TeacherRowStep(map, day_index, row, col, rooms, names) ==
    LET time     == TeacherTime(row.time)
        clock    == ParseClock(time, FALSE)
        mins     == Minutes(clock.h, clock.m)
        is_day_6 == (day_index + 1 = 6)
        cell     == IF col <= Len(row.cells) THEN Strip(row.cells[col]) ELSE <<>>
        activity == IF is_day_6 THEN TeacherSaturdayText(cell)
                    ELSE TeacherWeekdayText(cell, rooms, names)
    IN  IF time = <<>> THEN map
        ELSE IF clock.ok /\ mins >= Minutes(22, 0) THEN map
        ELSE IF clock.ok /\ is_day_6 /\ mins < Minutes(11, 0) THEN map
        ELSE IF activity # <<>> THEN Put(map, time, activity)
        ELSE map

special_friday_teachers ==
    {<<"Stephane", " ", "RETY">>, <<"Tomasz", " ", "SKWERES">>,
     <<"Sivan", " ", "MEGAN">>, <<"Liya", " ", "HUANG">>,
     <<"Gwyneth", " ", "WENTINK">>}

EVENING_MERGE_BLOCK == <<"EVENING_MERGE_BLOCK">>

SATURDAY_MORNING_MERGE_BLOCK == <<"SATURDAY_MORNING_MERGE_BLOCK">>

\* the times "hh:00", "hh:15", "hh:30", "hh:45" for the hours from..to
QuarterHours(from, to) ==
    [k \in 1..(4 * (to - from + 1)) |->
        FormatHM(from + ((k - 1) \div 4), 15 * ((k - 1) % 4))]

RECURSIVE PutAll(_, _, _)
PutAll(d, times, text) ==
    IF times = <<>> THEN d ELSE PutAll(Put(d, times[1], text), Tail(times), text)

\* lines 200-223: the evening block of a weekday or the morning block of day 6 is
\* added, and the items are sorted
TeacherEndOfDay(map, teacher, day_index) ==
    LET evening_activity ==
            IF day_index = 4 /\ teacher \in special_friday_teachers
            THEN <<"Transfer", " ", "to", " ", "Mandarin", " ", "Oriental">>
            ELSE EVENING_MERGE_BLOCK
    IN  SortByTime(IF day_index + 1 = 6
                   THEN PutAll(map, QuarterHours(10, 10), SATURDAY_MORNING_MERGE_BLOCK)
                   ELSE PutAll(map, QuarterHours(19, 21), evening_activity))

(***************************************************************************)
(* Teacher assembly: one day column of the output sheet                    *)
(***************************************************************************)
\* time_to_row = {time: i + 4 for i, time in enumerate(sorted_times)}
TeacherFirstRow == 4

\* todays_schedule_map.get(time, "")
TextAt(todays_schedule, time) ==
    IF \E i \in 1..Len(todays_schedule) : todays_schedule[i].time = time
    THEN todays_schedule[CHOOSE i \in 1..Len(todays_schedule) :
                             todays_schedule[i].time = time].text
    ELSE <<>>

\* row_span = len(list(group)): the rows from k on that repeat the activity of row k
RECURSIVE GroupLen(_, _, _)
GroupLen(todays_schedule, sorted_times, k) ==
    IF k < Len(sorted_times)
       /\ TextAt(todays_schedule, sorted_times[k + 1])
              = TextAt(todays_schedule, sorted_times[k])
    THEN 1 + GroupLen(todays_schedule, sorted_times, k + 1)
    ELSE 1

\* lines 260-297: itertools.groupby over full_day_schedule, one cell per group;
\* k is the index in sorted_times at which the next group starts
RECURSIVE TeacherGroups(_, _, _)
TeacherGroups(todays_schedule, sorted_times, k) ==
    IF k > Len(sorted_times) THEN <<>>
    ELSE LET activity == TextAt(todays_schedule, sorted_times[k])
             row_span == GroupLen(todays_schedule, sorted_times, k)
         IN  <<Block(TeacherFirstRow + k - 1, row_span, activity,
                     activity \in {EVENING_MERGE_BLOCK, SATURDAY_MORNING_MERGE_BLOCK})>>
                 \o TeacherGroups(todays_schedule, sorted_times, k + row_span)

(***************************************************************************)
(* Name-based student resolution (generate_individual_timetables.py)       *)
(***************************************************************************)
\* the lower-case word a is a prefix of the lower-case word b, a comparison of
\* characters; in the modelled vocabulary the only word inside a longer one is
\* "ann" in "anna"
WordPrefix(a, b) == a = b \/ (a = "ann" /\ b = "anna")

\* student.lower() occurs in activity.lower() from lexeme i on: p and t are the
\* lower-case texts
NameAt(p, t, i) ==
    /\ i + Len(p) - 1 <= Len(t)
    /\ \A j \in 1..(Len(p) - 1) : t[i + j - 1] = p[j]
    /\ WordPrefix(p[Len(p)], t[i + Len(p) - 1])

\* student.lower() in activity.lower()
HasName(activity, student) ==
    \E i \in 1..Len(activity) : NameAt(LowerSeq(student), LowerSeq(activity), i)

\* re.sub(re.escape(student), '', activity, flags=re.IGNORECASE): the characters
\* of a longer word that follow the name stay
RECURSIVE RemoveName(_, _)
RemoveName(t, student) ==
    IF t = <<>> THEN <<>>
    ELSE IF NameAt(LowerSeq(student), LowerSeq(t), 1)
         THEN (IF Lower(t[Len(student)]) = Lower(student[Len(student)]) THEN <<>>
               ELSE <<"a">>)
                  \o RemoveName(SubSeq(t, Len(student) + 1, Len(t)), student)
    ELSE <<t[1]>> \o RemoveName(Tail(t), student)

IsSeparator(x) == IsSpace(x) \/ x = ","

\* re.sub(r'^[,\s]+|[,\s]+$', '', text)
RECURSIVE StripSeparators(_)
StripSeparators(t) ==
    IF t = <<>> THEN t
    ELSE IF IsSeparator(t[1]) THEN StripSeparators(Tail(t))
    ELSE IF IsSeparator(t[Len(t)]) THEN StripSeparators(SubSeq(t, 1, Len(t) - 1))
    ELSE t

\* re.sub(r'[,\s]+', ' ', text)
RECURSIVE CollapseSeparators(_)
CollapseSeparators(t) ==
    IF t = <<>> THEN t
    ELSE IF IsSeparator(t[1])
         THEN IF Len(t) >= 2 /\ IsSeparator(t[2]) THEN CollapseSeparators(Tail(t))
              ELSE <<" ">> \o CollapseSeparators(Tail(t))
    ELSE <<t[1]>> \o CollapseSeparators(Tail(t))

\* lines 436-460: desc of a masterclass cell that holds the student's name
NameMasterclassDesc(activity, student, header_teacher, rooms) ==
    LET teacher       == MasterclassTeacher(activity, header_teacher, rooms)
        room_number   == Get(rooms, teacher, <<"TBD">>)
        base_activity ==
            Strip(CollapseSeparators(
                Strip(StripTrailingParen(Strip(RemoveName(activity, student))))))
    IN  base_activity \o <<"\n", "(">> \o room_number \o <<")">>

\* NameDirectDesc with the room of the teacher the text names
NameDirectDescNamedRoom(activity, student, header_teacher, rooms) ==
    LET cleaned_activity  == Strip(StripSeparators(Strip(RemoveName(activity, student))))
        pianist_lesson_match ==
            PianistMatch(LowerSeq(cleaned_activity), LowerSeq(cleaned_activity))
        original_match == PianistMatch(LowerSeq(activity), activity)
        teacher_name   == IF original_match.ok THEN Strip(original_match.group)
                          ELSE Strip(pianist_lesson_match.group)
    IN  IF pianist_lesson_match.ok
        THEN <<"Private", " ", "Lesson", " ", "with", " ">> \o teacher_name
                 \o <<" ", "&", " ", "pianist", "\n", "(">>
                 \o Get(rooms, teacher_name, <<"TBD">>) \o <<")">>
        ELSE cleaned_activity

\* lines 464-509: desc of a cell that holds the student's name
NameDirectDesc(activity, student, header_teacher, rooms) ==
    LET cleaned_activity  == Strip(StripSeparators(Strip(RemoveName(activity, student))))
        is_private_lesson ==
            \/ LowerSeq(Strip(activity)) = LowerSeq(student)
            \/ Infix(<<"private", " ", "lesson">>, LowerSeq(cleaned_activity))
        pianist_lesson_match ==
            PianistMatch(LowerSeq(cleaned_activity), LowerSeq(cleaned_activity))
        original_match == PianistMatch(LowerSeq(activity), activity)
        teacher_name   == IF original_match.ok THEN Strip(original_match.group)
                          ELSE Strip(pianist_lesson_match.group)
        room_number    == IF GetIgnoreCase(rooms, header_teacher, <<>>) # <<>>
                          THEN GetIgnoreCase(rooms, header_teacher, <<>>)
                          ELSE Get(rooms, header_teacher, <<>>)
        private_desc   == IF cleaned_activity = <<>>
                          THEN <<"Private", " ", "Lesson", " ", "with", " ">>
                                   \o header_teacher
                          ELSE cleaned_activity
        practice       == <<"Practice", "\n", "(", music_instrument, " ",
                            "practice", " ", "room", ")">>
    IN  IF pianist_lesson_match.ok
        THEN <<"Private", " ", "Lesson", " ", "with", " ">> \o teacher_name
                 \o <<" ", "&", " ", "pianist", "\n", "(">>
                 \o Get(rooms, header_teacher, <<"TBD">>) \o <<")">>
        ELSE IF is_private_lesson
        THEN IF header_teacher # <<>>
             THEN IF room_number # <<>>
                  THEN private_desc \o <<"\n", "(">> \o room_number \o <<")">>
                  ELSE private_desc
             ELSE practice
        ELSE IF LowerSeq(cleaned_activity) = <<"practice">> THEN practice
        ELSE cleaned_activity

\* lines 431-553: the body of `for i, activity in enumerate(activities)`
NameCellStep(acc, time, activity, student, header_teacher, rooms, groups, order) ==
    LET masterclass ==
            IF ~acc.found /\ HasLowerWord(activity, "masterclass")
                          /\ HasName(activity, student)
            THEN Found(acc, time,
                       NameMasterclassDesc(activity, student, header_teacher, rooms))
            ELSE acc
        direct ==
            IF ~masterclass.found /\ HasName(activity, student)
            THEN Found(masterclass, time,
                       NameDirectDesc(activity, student, header_teacher, rooms))
            ELSE masterclass
    IN  IF activity = <<>> THEN acc
        ELSE SimpleGroupStep(
                 ComplexGroupStep(direct, time, activity, student, rooms, groups),
                 time, activity, header_teacher, rooms, order)

\* the loop `for i, activity in enumerate(activities)` over the first n cells
RECURSIVE NameResolveCells(_, _, _, _, _, _, _, _)
NameResolveCells(n, time, activities, student, teachers, rooms, groups, order) ==
    IF n = 0 THEN NotFound
    ELSE NameCellStep(NameResolveCells(n - 1, time, activities, student, teachers,
                                       rooms, groups, order),
                      time, activities[n], student, teachers[n], rooms, groups, order)

\* lines 556-573: the cell the fallback emits, <<>> when there is none
NameCommonActivity(activities, student) ==
    LET ok == {i \in 1..Len(activities) :
                  /\ activities[i] # <<>>
                  /\ ~(/\ HasLowerWord(activities[i], "masterclass")
                       /\ ~HasName(activities[i], student))
                  /\ IsCommon(activities[i])}
    IN  IF ok = {} THEN <<>> ELSE activities[CHOOSE i \in ok : \A j \in ok : i <= j]

\* lines 366-392: the time key of a row; a datetime is no datetime.time, so its
\* str(), which holds colons and fits none of the four formats, is the key
IndividualTime(time_val) ==
    IF time_val.kind = "datetime"
    THEN <<"1", "9", "0", "0", "-", "0", "1", "-", "0", "1", " ">>
             \o FormatHM(time_val.h, time_val.m) \o <<":", "0", "0">>
    ELSE StudentTime(time_val)

\* lines 389-579: the body of `for row in schedule_rows` for one student name, from
\* the time key and its reading as a clock on; st is [schedule |->
\* student_schedule, added |-> day_6_check_in_added]
IndividualRowAt(st, time, clock, student, day_index, row, teachers, rooms, groups, order) ==
    LET is_day_6   == (day_index + 1 = 6)
        activities == [i \in 1..Len(row.cells) |-> Strip(row.cells[i])]
        nonempty   == {i \in 1..Len(activities) : activities[i] # <<>>}
        first      == activities[CHOOSE i \in nonempty : \A j \in nonempty : i <= j]
        resolved   == NameResolveCells(Len(activities), time, activities, student,
                                       teachers, rooms, groups, order)
        fallback   == Entry(time, NameCommonActivity(activities, student))
        Add(es)    == [st EXCEPT !.schedule = @ \o es]
    IN  IF time = <<>> \/ StripChars(time) = <<>> \/ IsNoneOrNan(time) THEN st
        ELSE IF clock.ok /\ Minutes(clock.h, clock.m) >= Minutes(17, 0) THEN st
        ELSE IF is_day_6
        THEN IF nonempty = {} THEN Add(<<fallback>>)
             ELSE IF Infix(<<"Check", " ", "in", " ", "Maritime", " ", "Museum">>, first)
             THEN IF st.added THEN st
                  ELSE [schedule |-> st.schedule \o CheckInEntries, added |-> TRUE]
             ELSE Add(<<Entry(time, first)>>)
        ELSE IF resolved.found THEN Add(resolved.out)
        ELSE Add(<<fallback>>)

\* lines 366-579: the body of `for row in schedule_rows` for one student name
IndividualRowStep(st, student, day_index, row, teachers, rooms, groups, order) ==
    LET time == IndividualTime(row.time)
    IN  IndividualRowAt(st, time, ParseClock(time, FALSE), student, day_index, row,
                        teachers, rooms, groups, order)

\* lines 277-281: a cell whose text starts with a time, the name of an activity or
\* of a week day, or that is a number or a room code, names no student
SkippedCell(t) ==
    \/ Lower(t[1]) \in {"lunch", "break", "welcome", "workshop", "toilet", "rehearsal",
                        "concert", "briefing", "yoga", "regulation", "masterclass",
                        "ensemble", "practice", "room", "group", "monday", "tuesday",
                        "wednesday", "thursday", "friday", "saturday", "sunday"}
    \/ (Len(t) = 1 /\ (IsNumber(t[1]) \/ IsStudentId(t[1])))
    \/ (Len(t) >= 3 /\ IsNumber(t[1]) /\ t[2] = ":" /\ IsNumber(t[3]))

\* re.split(r'[,;&\n]+', cell_content): the stripped pieces that hold a word
RECURSIVE NamePieces(_, _)
NamePieces(t, cur) ==
    LET piece == IF \E i \in 1..Len(cur) :
                        cur[i] \notin {" ", "(", ")", "-", ":"} /\ ~IsNumber(cur[i])
                 THEN {Strip(cur)} ELSE {}
    IN  IF t = <<>> THEN piece
        ELSE IF t[1] \in {",", ";", "&", "\n"} THEN piece \cup NamePieces(Tail(t), <<>>)
        ELSE NamePieces(Tail(t), Append(cur, t[1]))

\* lines 264-305: all_students, the names found in the cells of every sheet
AllNames(wb) ==
    UNION {UNION {UNION {IF Strip(wb[d].rows[r].cells[c]) = <<>>
                            \/ SkippedCell(Strip(wb[d].rows[r].cells[c]))
                         THEN {}
                         ELSE NamePieces(Strip(wb[d].rows[r].cells[c]), <<>>) :
                            c \in DOMAIN wb[d].rows[r].cells} :
                     r \in DOMAIN wb[d].rows} :
              d \in DOMAIN wb}

\* the place of a student name in Python's order of str
NameRank(x) ==
    CASE x = <<"ANN">> -> 1
      [] x = <<"Ann">> -> 2
      [] x = <<"Ann", " ", "Lesson", " ", "with", " ", "Bob">> -> 3
      [] x = <<"Ann", " ", "Private", " ", "Lesson", " ", "with", " ", "Liya", " ", "HUANG">> -> 4
      [] x = <<"Anna">> -> 5
      [] x = <<"Anna", " ", "MasterClass">> -> 6
      [] x = <<"Check", " ", "in", " ", "Maritime", " ", "Museum">> -> 7
      [] x = <<"Duet">> -> 8
      [] x = <<"F1", " ", "Private", " ", "Lesson", " ", "with", " ", "Bob">> -> 9
      [] x = <<"F1", " ", "lesson", " ", "with", " ", "Liya", " ", "HUANG">> -> 10
      [] x = <<"Pianist">> -> 11
      [] x = <<"pianist">> -> 12

\* sorted(list(all_students))
RECURSIVE SortedNames(_)
SortedNames(S) ==
    IF S = {} THEN <<>>
    ELSE LET x == CHOOSE y \in S : \A z \in S : NameRank(y) <= NameRank(z)
         IN  <<x>> \o SortedNames(S \ {x})

\* time_to_row = {time: i + 4 for i, time in enumerate(sorted_times)}
IndividualFirstRow == 4

\* lines 639-685: the loop over todays_schedule is the id-based generator's, with
\* the rows counted from IndividualFirstRow
IndividualColumn(todays_schedule, sorted_times) ==
    LET cells == StudentColumn(todays_schedule, sorted_times, Len(todays_schedule)).cells
    IN  [k \in 1..Len(cells) |->
            [cells[k] EXCEPT !.row = @ + IndividualFirstRow - StudentFirstRow]]

(***************************************************************************)
(* The first student generator (generate_timetables.py)                    *)
(***************************************************************************)
\* lines 140-150
legacy_common_activities ==
    <<
      <<"Welcome", " ", "Speech">>,
      <<"Lunch">>,
      <<"Break">>,
      <<"Ensemble", " ", "Coaching">>,
      <<"Workshop">>,
      <<"Toilet", " ", "Break">>,
      <<"Rehearsal", " ", "for", " ", "Students", " ", "and", " ", "Friends", " ", "Concert">>,
      <<"Lina", " ", "Summer", " ", "Camp", " ", "of", " ", "Music", " ", "Students", " ", "&", " ", "Friends", " ", "Concert">>,
      <<"After", " ", "concert", " ", "refreshment", " ", "(", "Maritime", " ", "Museum", ")">>
    >>

\* lines 205-216: desc of a cell that names the student as a whole word;
\* music_instrument is 'flute', from the file name flute-time-table.xlsx
LegacyDirectDesc(activity, student, header_teacher) ==
    LET cleaned_activity == Strip(RemoveWord(activity, student))
        practice == <<"Practice", " ", "(", "flute", " ", "practice", " ", "room", ")">>
    IN  IF Strip(activity) = <<student>>
        THEN IF header_teacher # <<>>
             THEN <<"Private", " ", "lesson", " ", "with", " ">> \o header_teacher
             ELSE practice
        ELSE IF LowerSeq(cleaned_activity) = <<"practice">> THEN practice
        ELSE cleaned_activity

\* lines 238-241: desc of a "Group a, b <name>" cell of one of the student's groups
LegacyGroupDesc(activity) ==
    IF Infix(<<"acting", " ", "class">>, LowerSeq(ActivityName(activity)))
    THEN <<"Acting", " ", "class">>
    ELSE ActivityName(activity) \o <<" ", "(", "Group", ")">>

\* lines 200-249: the body of `for i, activity in enumerate(activities)`
LegacyCellStep(acc, time, activity, student, header_teacher, groups) ==
    LET direct  == IF ~acc.found /\ HasWord(activity, student)
                   THEN Found(acc, time, LegacyDirectDesc(activity, student, header_teacher))
                   ELSE acc
        complex == IF /\ ~direct.found
                      /\ Lower(activity[1]) = "group"
                      /\ HasWord(activity, ",")
                      /\ StudentGroups(groups, student) \cap InvolvedGroups(activity) # {}
                   THEN Found(direct, time, LegacyGroupDesc(activity))
                   ELSE direct
    IN  IF activity = <<>> THEN acc
        ELSE IF /\ ~complex.found
                /\ Lower(activity[1]) = "group"
                /\ activity \in StudentGroups(groups, student)
        THEN Found(complex, time, <<"Ensemble">>)
        ELSE complex

\* the loop `for i, activity in enumerate(activities)` over the first n cells
RECURSIVE LegacyResolveCells(_, _, _, _, _, _)
LegacyResolveCells(n, time, activities, student, teachers, groups) ==
    IF n = 0 THEN NotFound
    ELSE LegacyCellStep(LegacyResolveCells(n - 1, time, activities, student, teachers, groups),
                        time, activities[n], student, teachers[n], groups)

\* LegacyFallback that leaves the slot empty when nothing is found
LegacyFallbackEmpty(activities) ==
    LET master == {i \in 1..Len(activities) :
                      /\ Len(activities[i]) >= 5
                      /\ SubSeq(activities[i], 1, 5) = <<"Master", " ", "class", " ", "with">>}
        common == {k \in 1..Len(legacy_common_activities) :
                      \E i \in 1..Len(activities) : activities[i] = legacy_common_activities[k]}
    IN  IF master # {} THEN activities[CHOOSE i \in master : \A j \in master : i <= j]
        ELSE IF common # {}
        THEN legacy_common_activities[CHOOSE k \in common : \A j \in common : k <= j]
        ELSE <<>>

\* lines 251-270: the first cell that starts with "Master class with", else the
\* first name of the list that is a cell of the row, else "Free Time"
LegacyFallback(activities) ==
    LET master == {i \in 1..Len(activities) :
                      /\ Len(activities[i]) >= 5
                      /\ SubSeq(activities[i], 1, 5) = <<"Master", " ", "class", " ", "with">>}
        common == {k \in 1..Len(legacy_common_activities) :
                      \E i \in 1..Len(activities) : activities[i] = legacy_common_activities[k]}
    IN  IF master # {} THEN activities[CHOOSE i \in master : \A j \in master : i <= j]
        ELSE IF common # {}
        THEN legacy_common_activities[CHOOSE k \in common : \A j \in common : k <= j]
        ELSE <<"Free", " ", "Time">>

\* line 176: the time key of a row; only a datetime.time is formatted
LegacyTime(time_val) ==
    IF time_val.kind = "time" THEN FormatHM(time_val.h, time_val.m)
    ELSE IF time_val.kind = "datetime"
    THEN <<"1", "9", "0", "0", "-", "0", "1", "-", "0", "1", " ">>
             \o FormatHM(time_val.h, time_val.m) \o <<":", "0", "0">>
    ELSE StripChars(time_val.s)

\* lines 178-270: the body of `for row in schedule_rows` for one student, from the
\* time key and its reading as a clock on
LegacyRowAt(student_schedule, time, clock, student, day_index, row, teachers, groups) ==
    LET activities == [i \in 1..Len(row.cells) |-> Strip(row.cells[i])]
        nonempty   == {i \in 1..Len(activities) : activities[i] # <<>>}
        resolved   == LegacyResolveCells(Len(activities), time, activities, student,
                                         teachers, groups)
    IN  IF day_index < 5 /\ clock.ok /\ Minutes(clock.h, clock.m) >= Minutes(17, 0)
        THEN student_schedule
        ELSE IF day_index + 1 = 6 /\ nonempty # {}
        THEN Append(student_schedule,
                    Entry(time, activities[CHOOSE i \in nonempty : \A j \in nonempty : i <= j]))
        ELSE IF day_index + 1 # 6 /\ resolved.found
        THEN student_schedule \o resolved.out
        ELSE Append(student_schedule, Entry(time, LegacyFallback(activities)))

\* lines 174-270: the body of `for row in schedule_rows` for one student
LegacyRowStep(student_schedule, student, day_index, row, teachers, groups) ==
    LET time == LegacyTime(row.time)
    IN  LegacyRowAt(student_schedule, time, ParseClock(time, FALSE), student, day_index,
                    row, teachers, groups)

\* lines 296-309: the loop over the groups of itertools.groupby(todays_schedule),
\* seen from the first n entries; a group's cell is written at its first time, and
\* a cell written again keeps the rows it was merged over
RECURSIVE LegacyColumn(_, _, _)
LegacyColumn(todays_schedule, sorted_times, n) ==
    IF n = 0 THEN <<>>
    ELSE IF n > 1 /\ todays_schedule[n - 1].text = todays_schedule[n].text
    THEN LegacyColumn(todays_schedule, sorted_times, n - 1)
    ELSE LET cells     == LegacyColumn(todays_schedule, sorted_times, n - 1)
             start_row == RowOf(todays_schedule[n].time, sorted_times, StudentFirstRow)
             row_span  == RowSpan(todays_schedule, n)
             spans     == {row_span} \cup
                              {cells[k].span : k \in {j \in DOMAIN cells : cells[j].row = start_row}}
         IN  WriteCell(cells, Block(start_row, CHOOSE x \in spans : \A y \in spans : y <= x,
                                    todays_schedule[n].text, FALSE))

(***************************************************************************)
(* The generators                                                          *)
(***************************************************************************)
\* sets of sequences over S of length at most n
SeqUpTo(S, n) == UNION {[1..k -> S] : k \in 0..n}

\* lines 118-128 of generate_student_timetables.py: all_students
AllStudents(wb) ==
    UNION {UNION {UNION {FoundStudents(wb[d].rows[r].cells[c]) :
                            c \in DOMAIN wb[d].rows[r].cells} :
                     r \in DOMAIN wb[d].rows} :
              d \in DOMAIN wb}

\* lines 69-76 of generate_teacher_timetables.py: all_teachers
AllTeachers(wb) ==
    UNION {{wb[d].teachers[c] : c \in {k \in DOMAIN wb[d].teachers : wb[d].teachers[k] # <<>>}} :
              d \in DOMAIN wb}

\* the place of a student id in Python's order of str
StudentRank(x) ==
    CASE x = "F1" -> 1
      [] x = "F12" -> 2
      [] x = "F2" -> 3

\* the place of a teacher name in Python's order of str
TeacherRank(x) ==
    CASE x = <<"Bob">> -> 1
      [] x = <<"Liya", " ", "HUANG">> -> 2
      [] x = <<"liya", " ", "huang">> -> 3

\* sorted(list(all_students))
RECURSIVE SortedStudents(_)
SortedStudents(S) ==
    IF S = {} THEN <<>>
    ELSE LET x == CHOOSE y \in S : \A z \in S : StudentRank(y) <= StudentRank(z)
         IN  <<x>> \o SortedStudents(S \ {x})

\* sorted(list(all_teachers))
RECURSIVE SortedTeachers(_)
SortedTeachers(S) ==
    IF S = {} THEN <<>>
    ELSE LET x == CHOOSE y \in S : \A z \in S : TeacherRank(y) <= TeacherRank(z)
         IN  <<x>> \o SortedTeachers(S \ {x})

Entities(g, wb) ==
    IF g \in {"student", "legacy"} THEN SortedStudents(AllStudents(wb))
    ELSE IF g = "individual" THEN SortedNames(AllNames(wb))
    ELSE SortedTeachers(AllTeachers(wb))

\* the state in which a generator starts on the workbook wb
Start(wb) ==
    /\ entities = Entities(gen, wb)
    /\ pc = IF Entities(gen, wb) = <<>> THEN "done" ELSE "resolve"
    /\ ei = 1
    /\ di = 1
    /\ ri = 1
    /\ schedule = <<>>
    /\ check_in_added = FALSE
    /\ daily_schedules = <<>>
    /\ all_time_slots = {}
    /\ written = <<>>
    /\ wd = 1
    /\ saved = <<>>
    /\ original_sheet = <<>>
    /\ pianist_ws = <<>>
    /\ merge_pc = [stage |-> "idle", k |-> 0]

InitWith(Gens, Workbooks, Rooms, Groups, Names) ==
    /\ gen \in Gens
    /\ sheets \in Workbooks
    /\ room_mappings \in Rooms
    /\ student_to_groups \in Groups
    /\ student_name_map \in Names
    /\ room_no_map = <<>>
    /\ Start(sheets)
    /\ run = 1
    /\ first_run = <<>>

tables == <<gen, sheets, room_mappings, student_to_groups, student_name_map, room_no_map,
            original_sheet, pianist_ws, merge_pc>>

\* NextDay with day_6_check_in_added left as the day's rows set it
NextDayKeepsFlag ==
    /\ schedule' = <<>>
    /\ check_in_added' = check_in_added
    /\ ri' = 1
    /\ IF di < Len(sheets)
       THEN di' = di + 1 /\ pc' = "resolve"
       ELSE di' = 1 /\ pc' = "write"
    /\ UNCHANGED <<tables, entities, ei, written, wd, saved, run, first_run>>

\* the sheet is resolved: on to the next sheet, or to the output workbook
NextDay ==
    /\ schedule' = <<>>
    /\ check_in_added' = FALSE
    /\ ri' = 1
    /\ IF di < Len(sheets)
       THEN di' = di + 1 /\ pc' = "resolve"
       ELSE di' = 1 /\ pc' = "write"
    /\ UNCHANGED <<tables, entities, ei, written, wd, saved, run, first_run>>

\* generate_student_timetables.py lines 200-449: one row for the current student
StudentRow ==
    /\ gen = "student"
    /\ pc = "resolve"
    /\ ri <= Len(sheets[di].rows)
    /\ \E order \in Orders(StudentGroups(student_to_groups, entities[ei])) :
           LET st == StudentRowStep([schedule |-> schedule, added |-> check_in_added],
                                    entities[ei], di - 1, sheets[di].rows[ri],
                                    sheets[di].teachers, room_mappings,
                                    student_to_groups, order)
           IN  /\ schedule' = st.schedule
               /\ check_in_added' = st.added
    /\ ri' = ri + 1
    /\ UNCHANGED <<tables, pc, entities, ei, di, daily_schedules, all_time_slots,
                   written, wd, saved, run, first_run>>

\* lines 451-456: the day's schedule is sorted and stored
StudentEndDay ==
    /\ gen = "student"
    /\ pc = "resolve"
    /\ ri > Len(sheets[di].rows)
    /\ daily_schedules' = daily_schedules @@ (di :> SortByTime(schedule))
    /\ all_time_slots' =
           all_time_slots \cup {schedule[k].time : k \in 1..Len(schedule)}
    /\ NextDay

\* lines 470-540: one day column of the student's sheet
StudentWriteColumn ==
    /\ gen = "student"
    /\ pc = "write"
    /\ wd <= Len(sheets)
    /\ written' = written @@
           (wd :> StudentColumn(daily_schedules[wd], SortedTimes(all_time_slots),
                                Len(daily_schedules[wd])).cells)
    /\ wd' = wd + 1
    /\ UNCHANGED <<tables, pc, entities, ei, di, ri, schedule, check_in_added,
                   daily_schedules, all_time_slots, saved, run, first_run>>

\* generate_individual_timetables.py lines 366-579: one row for the current name
IndividualRow ==
    /\ gen = "individual"
    /\ pc = "resolve"
    /\ ri <= Len(sheets[di].rows)
    /\ \E order \in Orders(StudentGroups(student_to_groups, entities[ei])) :
           LET st == IndividualRowStep([schedule |-> schedule, added |-> check_in_added],
                                       entities[ei], di - 1, sheets[di].rows[ri],
                                       sheets[di].teachers, room_mappings,
                                       student_to_groups, order)
           IN  /\ schedule' = st.schedule
               /\ check_in_added' = st.added
    /\ ri' = ri + 1
    /\ UNCHANGED <<tables, pc, entities, ei, di, daily_schedules, all_time_slots,
                   written, wd, saved, run, first_run>>

\* lines 581-585: the day's schedule is sorted and stored
IndividualEndDay ==
    /\ gen = "individual"
    /\ pc = "resolve"
    /\ ri > Len(sheets[di].rows)
    /\ daily_schedules' = daily_schedules @@ (di :> SortByTime(schedule))
    /\ all_time_slots' =
           all_time_slots \cup {schedule[k].time : k \in 1..Len(schedule)}
    /\ NextDay

\* lines 624-687: one day column of the student's sheet
IndividualWriteColumn ==
    /\ gen = "individual"
    /\ pc = "write"
    /\ wd <= Len(sheets)
    /\ written' = written @@
           (wd :> IndividualColumn(daily_schedules[wd], SortedTimes(all_time_slots)))
    /\ wd' = wd + 1
    /\ UNCHANGED <<tables, pc, entities, ei, di, ri, schedule, check_in_added,
                   daily_schedules, all_time_slots, saved, run, first_run>>

\* generate_timetables.py lines 174-270: one row for the current student
LegacyRow ==
    /\ gen = "legacy"
    /\ pc = "resolve"
    /\ ri <= Len(sheets[di].rows)
    /\ schedule' = LegacyRowStep(schedule, entities[ei], di - 1, sheets[di].rows[ri],
                                 sheets[di].teachers, student_to_groups)
    /\ ri' = ri + 1
    /\ UNCHANGED <<tables, pc, entities, ei, di, check_in_added, daily_schedules,
                   all_time_slots, written, wd, saved, run, first_run>>

\* lines 272-274: the day's schedule is stored as it stands
LegacyEndDay ==
    /\ gen = "legacy"
    /\ pc = "resolve"
    /\ ri > Len(sheets[di].rows)
    /\ daily_schedules' = daily_schedules @@ (di :> schedule)
    /\ all_time_slots' =
           all_time_slots \cup {schedule[k].time : k \in 1..Len(schedule)}
    /\ NextDay

\* lines 288-311: one day column of the student's sheet
LegacyWriteColumn ==
    /\ gen = "legacy"
    /\ pc = "write"
    /\ wd <= Len(sheets)
    /\ written' = written @@
           (wd :> LegacyColumn(daily_schedules[wd], SortedTimes(all_time_slots),
                               Len(daily_schedules[wd])))
    /\ wd' = wd + 1
    /\ UNCHANGED <<tables, pc, entities, ei, di, ri, schedule, check_in_added,
                   daily_schedules, all_time_slots, saved, run, first_run>>

\* generate_teacher_timetables.py lines 128-198: one row for the current teacher
TeacherRow ==
    /\ gen = "teacher"
    /\ pc = "resolve"
    /\ TeacherColumn(sheets[di].teachers, entities[ei], di - 1) # 0
    /\ ri <= Len(sheets[di].rows)
    /\ schedule' = TeacherRowStep(schedule, di - 1, sheets[di].rows[ri],
                                  TeacherColumn(sheets[di].teachers, entities[ei], di - 1),
                                  room_mappings, student_name_map)
    /\ ri' = ri + 1
    /\ UNCHANGED <<tables, pc, entities, ei, di, check_in_added, daily_schedules,
                   all_time_slots, written, wd, saved, run, first_run>>

\* lines 117-123 and 200-227: a sheet without the teacher is skipped; otherwise the
\* fixed blocks are added and the day's schedule is sorted and stored
TeacherEndDay ==
    /\ gen = "teacher"
    /\ pc = "resolve"
    /\ IF TeacherColumn(sheets[di].teachers, entities[ei], di - 1) = 0
       THEN UNCHANGED <<daily_schedules, all_time_slots>>
       ELSE LET teacher_schedule == TeacherEndOfDay(schedule, entities[ei], di - 1)
            IN  /\ ri > Len(sheets[di].rows)
                /\ daily_schedules' = daily_schedules @@ (di :> teacher_schedule)
                /\ all_time_slots' = all_time_slots \cup
                       {teacher_schedule[k].time : k \in 1..Len(teacher_schedule)}
    /\ NextDay

\* lines 247-299: one day column of the teacher's sheet
TeacherWriteColumn ==
    /\ gen = "teacher"
    /\ pc = "write"
    /\ wd <= Len(sheets)
    /\ written' = IF wd \in DOMAIN daily_schedules
                  THEN written @@
                       (wd :> TeacherGroups(daily_schedules[wd],
                                            SortedTimes(all_time_slots), 1))
                  ELSE written
    /\ wd' = wd + 1
    /\ UNCHANGED <<tables, pc, entities, ei, di, ri, schedule, check_in_added,
                   daily_schedules, all_time_slots, saved, run, first_run>>

\* the workbook of the current entity is saved and the next entity starts
Save ==
    /\ pc = "write"
    /\ wd > Len(sheets)
    /\ saved' = IF gen = "teacher" /\ DOMAIN daily_schedules = {} THEN saved
                ELSE Append(saved, [entity |-> entities[ei],
                                    times  |-> SortedTimes(all_time_slots),
                                    daily  |-> daily_schedules,
                                    blocks |-> written])
    /\ daily_schedules' = <<>>
    /\ all_time_slots' = {}
    /\ written' = <<>>
    /\ wd' = 1
    /\ IF ei < Len(entities)
       THEN ei' = ei + 1 /\ pc' = "resolve"
       ELSE ei' = ei /\ pc' = "done"
    /\ UNCHANGED <<tables, entities, di, ri, schedule, check_in_added, run, first_run>>

\* __main__: the generator is invoked again on the same workbook and CSV files
Rerun ==
    /\ pc = "done"
    /\ run = 1
    /\ run' = 2
    /\ first_run' = saved
    /\ entities' = Entities(gen, sheets)
    /\ pc' = IF Entities(gen, sheets) = <<>> THEN "done" ELSE "resolve"
    /\ ei' = 1
    /\ di' = 1
    /\ ri' = 1
    /\ schedule' = <<>>
    /\ check_in_added' = FALSE
    /\ daily_schedules' = <<>>
    /\ all_time_slots' = {}
    /\ written' = <<>>
    /\ wd' = 1
    /\ saved' = <<>>
    /\ UNCHANGED tables

NextStudent == StudentRow \/ StudentEndDay \/ StudentWriteColumn \/ Save

NextTeacher == TeacherRow \/ TeacherEndDay \/ TeacherWriteColumn \/ Save

NextIndividual == IndividualRow \/ IndividualEndDay \/ IndividualWriteColumn \/ Save

NextLegacy == LegacyRow \/ LegacyEndDay \/ LegacyWriteColumn \/ Save

(***************************************************************************)
(* Input workbooks and mapping tables                                      *)
(***************************************************************************)
\* the camp week: the sheet with day_index + 1 == 6 is the Saturday
WeekDays == 6

\* the most schedule rows a workbook of the merge family holds
MaxRows == 3

\* a datetime.time cell, a datetime.datetime cell and a str cell of the time column
TimeCell(h, m) == [kind |-> "time", h |-> h, m |-> m, s |-> <<>>]

DateTimeCell(h, m) == [kind |-> "datetime", h |-> h, m |-> m, s |-> <<>>]

StrCell(s) == [kind |-> "str", h |-> 0, m |-> 0, s |-> s]

Row(time_val, cells) == [time |-> time_val, cells |-> cells]

\* the rows of one sheet, top to bottom: the k-th time value of Slots heads a row
\* with the cells CellRows[p[k]], or no row where p[k] = 0
RECURSIVE SheetRows(_, _, _, _)
SheetRows(Slots, CellRows, p, k) ==
    IF k > Len(Slots) THEN <<>>
    ELSE (IF p[k] = 0 THEN <<>> ELSE <<Row(Slots[k], CellRows[p[k]])>>)
             \o SheetRows(Slots, CellRows, p, k + 1)

\* process_sheet: the workbooks of WeekDays sheets with the header on every sheet
\* and at most n schedule rows in all, on the sheets Days
Workbooks(header, Days, Slots, CellRows, n) ==
    {[d \in 1..WeekDays |->
         [teachers |-> header,
          rows     |-> IF d \in Days
                       THEN SheetRows(Slots, CellRows,
                                      [k \in 1..Len(Slots) |-> plan[<<d, k>>]], 1)
                       ELSE <<>>]] :
        plan \in {p \in [Days \X (1..Len(Slots)) -> 0..Len(CellRows)] :
                     Cardinality({x \in DOMAIN p : p[x] # 0}) <= n}}

Bob == <<"Bob">>

Liya == <<"Liya", " ", "HUANG">>

\* the merge family: one teacher column, three quarter hours on two weekdays, cells
\* that resolve to equal and to unequal texts, and the empty cell
MergeSlots == <<TimeCell(9, 0), TimeCell(9, 15), TimeCell(9, 30)>>

MergeCells == <<<< <<"Lunch">> >>, << <<"F1">> >>, << <<>> >>>>

Next == NextStudent \/ NextTeacher

InitMergeStudent ==
    InitWith({"student"}, Workbooks(<<Bob>>, {1, 2}, MergeSlots, MergeCells, MaxRows),
             {<<>>}, {<<>>}, {<<>>})

SpecMergeStudent == InitMergeStudent /\ [][NextStudent]_vars

\* the most teacher columns a sheet of the cascade family holds
MaxCells == 2

\* the cascade family: one Monday row at 09:00 whose cells satisfy one, two or
\* three of the student rules, in every arrangement over the columns
CascadeTexts ==
    <<<<>>,
     <<"Lunch">>,
     <<"F1">>,
     <<"MasterClass", " ", "F1">>,
     <<"Group", " ", "1">>,
     <<"Group", " ", "1", ",", " ", "2", " ", "Duet">>,
     <<"Group", " ", "1", ",", " ", "F1", " ", "Duet">>,
     <<"Group", " ", "1", " ", "MasterClass", " ", "F1">>>>

CascadeHeader == [c \in 1..MaxCells |-> IF c % 2 = 1 THEN Liya ELSE Bob]

RECURSIVE Power(_, _)
Power(n, k) == IF k = 0 THEN 1 ELSE n * Power(n, k - 1)

\* every row of `cells` cells over the texts, numbered in base Len(texts)
AllCellRows(texts, cells) ==
    [k \in 1..Power(Len(texts), cells) |->
        [c \in 1..cells |-> texts[(((k - 1) \div Power(Len(texts), c - 1)) % Len(texts)) + 1]]]

CascadeCells == AllCellRows(CascadeTexts, MaxCells)

\* room_mappings and student_to_groups as loaded from the CSV files (empty when
\* the file is missing)
SomeRooms == {<<>>, <<[key |-> Liya, val |-> <<"12B">>]>>}

SomeGroups ==
    {<<>>,
     ("F1" :> {<<"Group", " ", "1">>}),
     ("F1" :> {<<"Group", " ", "1">>, <<"Group", " ", "2">>})}

InitCascade ==
    InitWith({"student"},
             Workbooks(CascadeHeader, {1}, <<TimeCell(9, 0)>>, CascadeCells, 1),
             SomeRooms, SomeGroups, {<<>>})

SpecCascade == InitCascade /\ [][NextStudent]_vars

(***************************************************************************)
(* Cascade properties of student resolution                                *)
(***************************************************************************)
\* the patterns of rules 1-4 on one cell, for the student
RuleMatches(k, activity, student) ==
    CASE k = 1 -> HasLowerWord(activity, "masterclass") /\ HasWord(activity, student)
      [] k = 2 -> HasWord(activity, student)
      [] k = 3 -> /\ Lower(activity[1]) = "group"
                  /\ HasWord(activity, ",")
                  /\ \E g \in StudentGroups(student_to_groups, student) :
                         g \in InvolvedGroups(activity)
      [] k = 4 -> /\ Lower(activity[1]) = "group"
                  /\ \E g \in StudentGroups(student_to_groups, student) :
                         StartsWith(activity, g)

\* the rules whose pattern the cell satisfies
RulesOf(activity, student) ==
    IF activity = <<>> THEN {}
    ELSE {k \in 1..4 : RuleMatches(k, activity, student)}

\* the output of rule k on the cell
RuleOutput(k, activity, student, header_teacher) ==
    CASE k = 1 -> MasterclassDesc(activity, header_teacher, room_mappings)
      [] k = 2 -> DirectDesc(activity, student, header_teacher, room_mappings)
      [] k = 3 -> ComplexGroupDesc(activity, room_mappings)
      [] k = 4 -> SimpleGroupDesc(activity, <<>>, header_teacher, room_mappings)

Least(S) == CHOOSE x \in S : \A y \in S : x <= y

\* the row of days 1-5 that the student generator resolved last
LastRow == sheets[di].rows[ri - 1]

LastCells == [c \in DOMAIN LastRow.cells |-> Strip(LastRow.cells[c])]

AfterWeekdayRow ==
    /\ gen = "student"
    /\ pc = "resolve"
    /\ di <= 5
    /\ ri > 1
    /\ StudentTime(LastRow.time) # <<>>
    /\ ~(/\ ParseClock(StudentTime(LastRow.time), FALSE).ok
         /\ ParseClock(StudentTime(LastRow.time), FALSE).h >= 17)

\* the cells of the last row that satisfy some rule, and those that satisfy rule k
MatchingCells == {c \in DOMAIN LastCells : RulesOf(LastCells[c], entities[ei]) # {}}

CellsOfRule(k) == {c \in DOMAIN LastCells : k \in RulesOf(LastCells[c], entities[ei])}

\* C3: when the cell that decides a row of days 1-5 satisfies two or more of rules
\* 1-4, exactly one entry is appended for the row and it is the output of the
\* earliest of the rules the cell satisfies
CascadeWithinCell ==
    (AfterWeekdayRow /\ MatchingCells # {}) =>
        LET c == Least(MatchingCells)
            k == Least(RulesOf(LastCells[c], entities[ei]))
        IN  Cardinality(RulesOf(LastCells[c], entities[ei])) >= 2 =>
                /\ Len(schedule) = ri - 1
                /\ schedule[ri - 1] =
                       Entry(StudentTime(LastRow.time),
                             RuleOutput(k, LastCells[c], entities[ei],
                                        sheets[di].teachers[c]))

\* a row was decided by a cell that satisfies rules 1, 2 and 4
CascadeWithinCellWitness ==
    /\ AfterWeekdayRow
    /\ MatchingCells # {}
    /\ RulesOf(LastCells[Least(MatchingCells)], entities[ei]) = {1, 2, 4}
    /\ Len(schedule) = ri - 1

\* C4: when a cell of a row of days 1-5 satisfies a higher-priority rule and another
\* cell a lower-priority rule, the entry of the row is the output of the
\* higher-priority rule, whichever columns the cells are in
CascadeAcrossCells ==
    (AfterWeekdayRow /\ MatchingCells # {}) =>
        LET k == Least({j \in 1..4 : CellsOfRule(j) # {}})
            c == Least(CellsOfRule(k))
        IN  /\ schedule # <<>>
            /\ schedule[Len(schedule)].text =
                   RuleOutput(k, LastCells[c], entities[ei], sheets[di].teachers[c])

\* the two-run family: one Monday row over cells of two students, one of them in
\* two groups whose names both start a cell
TwoRunTexts ==
    <<<<>>,
      <<"F1">>,
      <<"F2", " ", "Practice">>,
      <<"Group", " ", "10">>,
      <<"Group", " ", "1", " ", "(", "Room", " ", "4", ")">>>>

TwoRunGroups ==
    {<<>>,
     ("F1" :> {<<"Group", " ", "1">>, <<"Group", " ", "10">>})
         @@ ("F2" :> {<<"Group", " ", "10">>})}

InitTwoRuns ==
    InitWith({"student", "teacher"},
             Workbooks(CascadeHeader, {1}, <<TimeCell(9, 0)>>,
                       AllCellRows(TwoRunTexts, MaxCells), 1),
             SomeRooms, TwoRunGroups, {<<>>})

SpecTwoRuns == InitTwoRuns /\ [][Next \/ Rerun]_vars

(***************************************************************************)
(* Merge properties of the saved sheets                                    *)
(***************************************************************************)
FirstRow == IF gen = "student" THEN StudentFirstRow ELSE TeacherFirstRow

\* the output rows a block covers
Covered(b) == b.row..(b.row + b.span - 1)

\* the output rows of the entries of day d of the saved timetable s
EntryRows(s, d) ==
    {RowOf(s.daily[d][k].time, s.times, FirstRow) : k \in DOMAIN s.daily[d]}

\* the output rows of the entries of day d that carry the text
RowsWithText(s, d, text) ==
    {RowOf(s.daily[d][k].time, s.times, FirstRow) :
        k \in {j \in DOMAIN s.daily[d] : s.daily[d][j].text = text}}

\* C1: in every saved timetable and every day column, each entry's output row is
\* covered by exactly one block, no two blocks cover a common row, and a block
\* covers only rows of entries that carry its text
MergePartition ==
    \A i \in DOMAIN saved : \A d \in DOMAIN saved[i].blocks :
        LET s      == saved[i]
            blocks == s.blocks[d]
        IN  /\ \A r \in EntryRows(s, d) :
                   Cardinality({j \in DOMAIN blocks : r \in Covered(blocks[j])}) = 1
            /\ \A j, k \in DOMAIN blocks :
                   j # k => Covered(blocks[j]) \cap Covered(blocks[k]) = {}
            /\ \A j \in DOMAIN blocks :
                   Covered(blocks[j]) \subseteq RowsWithText(s, d, blocks[j].text)

\* C2: in every saved timetable and every day column, two consecutive blocks
\* never carry equal text
MergeMaximal ==
    \A i \in DOMAIN saved : \A d \in DOMAIN saved[i].blocks :
        \A j \in 1..(Len(saved[i].blocks[d]) - 1) :
            saved[i].blocks[d][j].text # saved[i].blocks[d][j + 1].text

\* C6: in every saved timetable and every day column, a row of the index on which
\* the entity has no entry that day is covered by no block, and an entry whose text
\* is "" has a block with the text "" that covers its row
AbsenceVersusEmpty ==
    \A i \in DOMAIN saved : \A d \in DOMAIN saved[i].blocks :
        LET s      == saved[i]
            blocks == s.blocks[d]
        IN  /\ \A r \in (FirstRow..(FirstRow + Len(s.times) - 1)) \ EntryRows(s, d) :
                   \A j \in DOMAIN blocks : r \notin Covered(blocks[j])
            /\ \A k \in DOMAIN s.daily[d] :
                   s.daily[d][k].text = <<>> =>
                       \E j \in DOMAIN blocks :
                           /\ blocks[j].text = <<>>
                           /\ RowOf(s.daily[d][k].time, s.times, FirstRow)
                                  \in Covered(blocks[j])

(***************************************************************************)
(* Two runs on the same workbook and mapping tables                        *)
(***************************************************************************)
\* the block sequences of a run: per entity, the row index and the day columns
BlocksOf(out) ==
    [i \in DOMAIN out |->
        [entity |-> out[i].entity, times |-> out[i].times, blocks |-> out[i].blocks]]

\* C5: when the second run on the same workbook and tables has finished, it has
\* saved, for every entity and day, the block sequences the first run saved
Idempotent == (run = 2 /\ pc = "done") => BlocksOf(saved) = BlocksOf(first_run)

\* both runs resolved, for a student of two groups, a cell that both group names
\* start, and saved the timetable
IdempotentWitness ==
    /\ run = 2
    /\ pc = "done"
    /\ gen = "student"
    /\ \E i \in DOMAIN saved :
           /\ Cardinality(StudentGroups(student_to_groups, saved[i].entity)) = 2
           /\ \E c \in DOMAIN sheets[1].rows[1].cells :
                  \A g \in StudentGroups(student_to_groups, saved[i].entity) :
                      StartsWith(sheets[1].rows[1].cells[c], g)
           /\ saved[i].blocks[1] # <<>>
           /\ saved[i].blocks[1][1].text[1] = "Ensemble"

(***************************************************************************)
(* The time family: raw time values of every representation                *)
(***************************************************************************)
\* the most schedule rows a workbook of the time family holds
MaxTimeRows == 2

F1Cell == << <<"F1">> >>

CheckInCell == << <<"Check", " ", "in", " ", "Maritime", " ", "Museum">> >>

\* rows headed by a clock-time object, a timestamp, strings in the formats the
\* student generator tries, strings in none of them, and the empty string
TimeRows ==
    <<Row(TimeCell(9, 0), F1Cell),
      Row(StrCell(<<"9", ":", "0", "0">>), F1Cell),
      Row(TimeCell(9, 0), CheckInCell),
      Row(DateTimeCell(10, 15), F1Cell),
      Row(TimeCell(16, 30), F1Cell),
      Row(TimeCell(17, 0), F1Cell),
      Row(StrCell(<<"5", ":", "0", "0", " ", "P", "M">>), F1Cell),
      Row(StrCell(<<"2", "5", ":", "0", "0">>), F1Cell),
      Row(StrCell(<<"T", "i", "m", "e">>), F1Cell),
      Row(StrCell(<<>>), F1Cell),
      Row(TimeCell(22, 0), F1Cell),
      Row(StrCell(<<"0", "9", ":", "3", "0", ":", "0", "0">>), F1Cell)>>

\* the rows of Rows picked for the j-th of the days, in the order of Rows; a pick
\* is an increasing sequence of positions in the days' rows laid end to end
PickedRows(Rows, pick, j) ==
    LET mine == SelectSeq(pick, LAMBDA x : (x - 1) \div Len(Rows) = j - 1)
    IN  [i \in 1..Len(mine) |-> Rows[((mine[i] - 1) % Len(Rows)) + 1]]

\* process_sheet: the workbooks of WeekDays sheets with the header on every sheet
\* and at most n of the rows Rows in all, on the sheets Days (a sequence of days)
TimedWorkbooks(header, Days, Rows, n) ==
    {[d \in 1..WeekDays |->
         [teachers |-> header,
          rows     |-> IF \E j \in 1..Len(Days) : Days[j] = d
                       THEN PickedRows(Rows, pick,
                                       CHOOSE j \in 1..Len(Days) : Days[j] = d)
                       ELSE <<>>]] :
        pick \in UNION {{s \in [1..k -> 1..(Len(Days) * Len(Rows))] :
                            \A i \in 1..(k - 1) : s[i] < s[i + 1]} : k \in 0..n}}

InitTime ==
    InitWith({"student", "teacher"},
             TimedWorkbooks(<<Bob>>, <<1, 6>>, TimeRows, MaxTimeRows),
             {<<>>}, {<<>>}, {<<>>})

SpecTime == InitTime /\ [][Next]_vars

(***************************************************************************)
(* Time slots of the daily schedules                                       *)
(***************************************************************************)
\* the time keys of the current entity's schedule of day d
KeysOf(d) == {daily_schedules[d][k].time : k \in DOMAIN daily_schedules[d]}

RowsOfDay(d) == {sheets[d].rows[k] : k \in DOMAIN sheets[d].rows}

\* the key the running generator gives a raw time value
SourceTime(time_val) ==
    IF gen = "student" THEN StudentTime(time_val) ELSE TeacherTime(time_val)

SourceKeys(d) == {SourceTime(r.time) : r \in RowsOfDay(d)}

\* the key read as '%H:%M' is a clock time in the minutes lo..(hi - 1) of the day
ReadsWithin(key, lo, hi) ==
    \E clock \in {ParseClock(key, FALSE)} :
        /\ clock.ok
        /\ Minutes(clock.h, clock.m) >= lo
        /\ Minutes(clock.h, clock.m) < hi

\* two digits, a colon, two digits: an hour up to 23 and a minute up to 59
IsCanonical(key) ==
    /\ Len(key) = 5
    /\ \A i \in {1, 2, 4, 5} : IsDigit(key[i])
    /\ key[3] = ":"
    /\ 10 * DigitVal(key[1]) + DigitVal(key[2]) <= 23
    /\ 10 * DigitVal(key[4]) + DigitVal(key[5]) <= 59

MorningSlots == {FormatHM(10, m) : m \in {0, 15, 30, 45}}

EveningSlots == {FormatHM(h, m) : h \in 19..21, m \in {0, 15, 30, 45}}

\* the row's first non-empty cell holds the check-in keyword
IsCheckInRow(r) ==
    LET cells    == [i \in 1..Len(r.cells) |-> Strip(r.cells[i])]
        nonempty == {i \in 1..Len(cells) : cells[i] # <<>>}
    IN  /\ nonempty # {}
        /\ Infix(<<"Check", " ", "in", " ", "Maritime", " ", "Museum">>,
                 cells[Least(nonempty)])

\* the slots a generator adds to day d whatever the times of the sheet's rows
FixedSlots(d) ==
    IF gen = "student"
    THEN IF d = 6 /\ \E r \in RowsOfDay(d) : IsCheckInRow(r) THEN MorningSlots ELSE {}
    ELSE IF d = 6 THEN MorningSlots ELSE EveningSlots

\* C7: every time slot of a daily schedule is the time key of a row of that day's
\* sheet
SlotsFromSource ==
    \A d \in DOMAIN daily_schedules : KeysOf(d) \subseteq SourceKeys(d)

\* C7, amended: every time slot of a daily schedule is the time key of a row of
\* that day's sheet or one of the fixed slots: 10:00-10:45 on a student's day 6
\* with a check-in row, 10:00-10:45 on a teacher's day 6, 19:00-21:45 on a
\* teacher's other days
SlotsFromSourceOrFixed ==
    \A d \in DOMAIN daily_schedules :
        KeysOf(d) \subseteq (SourceKeys(d) \cup FixedSlots(d))

\* a student's day 6 whose only check-in row is headed 09:00 holds the slot 10:15
SlotsFromSourceOrFixedWitness ==
    /\ gen = "student"
    /\ 6 \in DOMAIN daily_schedules
    /\ \E r \in RowsOfDay(6) : IsCheckInRow(r) /\ StudentTime(r.time) = FormatHM(9, 0)
    /\ FormatHM(10, 15) \in KeysOf(6) \ SourceKeys(6)

NoSlotFrom17 ==
    \A d \in DOMAIN daily_schedules : \A key \in KeysOf(d) :
        ~ReadsWithin(key, Minutes(17, 0), Minutes(24, 0))

\* C9, amended: on the days 1-5 and on day 6 no time key of a student's daily
\* schedule reads as a clock time at or after 17:00, and no time key of a teacher's
\* daily schedule reads as a clock time at or after 22:00
UpperWindow ==
    \A d \in DOMAIN daily_schedules : \A key \in KeysOf(d) :
        ~ReadsWithin(key, Minutes(IF gen = "student" THEN 17 ELSE 22, 0), Minutes(24, 0))

\* a student's weekday sheet has a row at 17:00 and one at 5:00 PM, and the day is
\* resolved
UpperWindowWitness ==
    /\ gen = "student"
    /\ 1 \in DOMAIN daily_schedules
    /\ \E r \in RowsOfDay(1) : r.time = TimeCell(17, 0)
    /\ \E r \in RowsOfDay(1) : r.time = StrCell(<<"5", ":", "0", "0", " ", "P", "M">>)

\* the rows of day 6 whose time the student generator reads as before 11:00 have
\* their entries in the student's day-6 schedule: an entry at the row's time, or
\* the check-in block for a check-in row
StudentKeepsMorning ==
    (gen = "student" /\ 6 \in DOMAIN daily_schedules) =>
        \A r \in RowsOfDay(6) :
            ReadsWithin(StudentTime(r.time), 0, Minutes(11, 0)) =>
                IF IsCheckInRow(r) THEN MorningSlots \subseteq KeysOf(6)
                ELSE StudentTime(r.time) \in KeysOf(6)

\* C10: a teacher's day-6 schedule has no time slot before 11:00, and a student's
\* day-6 schedule keeps the entries of the rows before 11:00
Day6Window ==
    /\ (gen = "teacher" /\ 6 \in DOMAIN daily_schedules) =>
           \A key \in KeysOf(6) : ~ReadsWithin(key, 0, Minutes(11, 0))
    /\ StudentKeepsMorning

\* C10, amended: a teacher's day-6 schedule has no time key that reads as a clock
\* time before 11:00 other than the fixed slots 10:00, 10:15, 10:30 and 10:45, and
\* a student's day-6 schedule keeps the entries of the rows before 11:00
Day6WindowButMorningBlock ==
    /\ (gen = "teacher" /\ 6 \in DOMAIN daily_schedules) =>
           \A key \in KeysOf(6) \ MorningSlots : ~ReadsWithin(key, 0, Minutes(11, 0))
    /\ StudentKeepsMorning

\* a teacher's day 6 is resolved from a sheet with a row at 09:00 that has an
\* activity in the teacher's column
Day6WindowButMorningBlockWitness ==
    /\ gen = "teacher"
    /\ 6 \in DOMAIN daily_schedules
    /\ \E r \in RowsOfDay(6) : r.time = TimeCell(9, 0) /\ r.cells = F1Cell
    /\ FormatHM(9, 0) \notin KeysOf(6)

(***************************************************************************)
(* The rule family: one Monday row whose cells each satisfy one rule       *)
(***************************************************************************)
\* the most teacher columns a sheet of the rule family holds
RuleCells == 1

RuleTexts ==
    <<<<>>,
      <<"F1">>,
      <<"F1", " ", "Private", " ", "Lesson">>,
      <<"F1", " ", "F1">>,
      <<"F1", " ", "Practice">>,
      <<"F1", " ", "Private", " ", "Lesson", " ", "with", " ", "Bob", " ", "&", " ", "pianist">>,
      <<"MasterClass", " ", "F1">>,
      <<"Bob", " ", "MasterClass", " ", "F1", ",", " ", "F2", " ", "(", "Room", " ", "4", ")">>,
      <<"Liya", " ", "HUANG", " ", "&", " ", "Bob", " ", "MasterClass", " ", "F1">>,
      <<"Group", " ", "2", ",", " ", "5", " ", "Acting", " ", "Class", " ", "(", "Room", " ", "4", ")">>,
      <<"Group", " ", "1", ",", " ", "2", " ", "Duet">>,
      <<"Group", " ", "1", ",", " ", "5", " ", "Group", " ", "Game">>,
      <<"Group", " ", "1">>,
      <<"Group", " ", "10">>,
      <<"Group", " ", "1", " ", "(", "Room", " ", "4", ")">>>>

RuleHeader == [c \in 1..RuleCells |-> IF c % 2 = 1 THEN Liya ELSE Bob]

\* room_mappings as loaded from the room CSV: no file, the header teacher in the
\* header's and in another letter case, two teachers, the acting-class key
RuleRooms ==
    {<<>>,
     <<[key |-> Liya, val |-> <<"12B">>]>>,
     <<[key |-> <<"liya", " ", "huang">>, val |-> <<"12B">>]>>,
     <<[key |-> Bob, val |-> <<"7">>], [key |-> Liya, val |-> <<"12B">>]>>,
     <<[key |-> <<"Room", " ", "Acting", " ", "Class">>, val |-> <<"Hall">>]>>}

RuleGroups ==
    {<<>>,
     ("F1" :> {<<"Group", " ", "1">>, <<"Group", " ", "10">>}),
     ("F1" :> {<<"Group", " ", "5">>}) @@ ("F2" :> {<<"Group", " ", "2">>})}

InitRules ==
    InitWith({"student"},
             Workbooks(RuleHeader, {1}, <<TimeCell(9, 0)>>,
                       AllCellRows(RuleTexts, RuleCells), 1),
             RuleRooms, RuleGroups, {<<>>})

SpecRules == InitRules /\ [][NextStudent]_vars

\* the cell that decided the last row, the rule that decided it, and the teacher
\* of its column
DecidingCell == LastCells[Least(MatchingCells)]

DecidingRule == Least(RulesOf(DecidingCell, entities[ei]))

DecidingTeacher == sheets[di].teachers[Least(MatchingCells)]

\* the last row of days 1-5 was decided by rule k
DecidedBy(k) == AfterWeekdayRow /\ MatchingCells # {} /\ DecidingRule = k

LastText == schedule[Len(schedule)].text

\* the rooms of the keys of room_mappings that equal the teacher but for case
RoomsOf(teacher) ==
    {room_mappings[i].val :
        i \in {j \in DOMAIN room_mappings :
                  LowerSeq(room_mappings[j].key) = LowerSeq(teacher)}}

\* the text followed by "\n(<room>)" for a room of the teacher, the text alone
\* when the teacher has none
WithRoomLine(text, teacher) ==
    IF RoomsOf(teacher) = {} THEN {text}
    ELSE {text \o <<"\n", "(">> \o room \o <<")">> : room \in RoomsOf(teacher)}

\* the deciding cell with the student's identifier removed
CleanedCell == Strip(RemoveWord(DecidingCell, entities[ei]))

PrivateLessonWith == <<"Private", " ", "Lesson", " ", "with", " ">>

\* C11: a direct match whose cleaned text is empty or holds "private lesson", in a
\* column with a teacher, resolves to "Private Lesson with <teacher>" and the
\* room line of the teacher
PrivateLesson ==
    (/\ DecidedBy(2)
     /\ DecidingTeacher # <<>>
     /\ \/ CleanedCell = <<>>
        \/ Infix(<<"private", " ", "lesson">>, LowerSeq(CleanedCell))) =>
        LastText \in WithRoomLine(PrivateLessonWith \o DecidingTeacher, DecidingTeacher)

\* C11, amended: in a column with a teacher, a direct match on a cell that is just
\* the identifier resolves to "Private Lesson with <teacher>", and one whose
\* cleaned text holds "private lesson" and not "lesson with .. & pianist" resolves
\* to the cleaned text, each followed by the room line of the teacher
PrivateLessonOrCleaned ==
    (DecidedBy(2) /\ DecidingTeacher # <<>>) =>
        /\ DecidingCell = <<entities[ei]>> =>
               LastText \in WithRoomLine(PrivateLessonWith \o DecidingTeacher,
                                         DecidingTeacher)
        /\ (/\ Infix(<<"private", " ", "lesson">>, LowerSeq(CleanedCell))
            /\ ~PianistMatch(LowerSeq(CleanedCell), CleanedCell).ok) =>
               LastText \in WithRoomLine(CleanedCell, DecidingTeacher)

\* the cell "F1 Private Lesson" in the column of a teacher whose room is mapped
\* under another letter case was resolved for F1
PrivateLessonOrCleanedWitness ==
    /\ DecidedBy(2)
    /\ DecidingCell = <<"F1", " ", "Private", " ", "Lesson">>
    /\ room_mappings # <<>>
    /\ room_mappings[1].key = <<"liya", " ", "huang">>
    /\ LastText = <<"Private", " ", "Lesson", "\n", "(", "12B", ")">>

(***************************************************************************)
(* The name family: both student generators on cells that hold names, ids  *)
(* and masterclasses                                                       *)
(***************************************************************************)
\* the most schedule rows a workbook of the name family holds
NameRows == 2

NameTexts ==
    << <<"Ann">>, <<"Anna">>, <<"ANN">>,
       <<"Anna", " ", "MasterClass">>, <<"MasterClass", " ", "Anna">>,
       <<"Lunch">>, <<"MasterClass">>,
       <<"F1">>, <<"F12">>, <<"MasterClass", " ", "F12">> >>

NameRooms == {<<>>, <<[key |-> Liya, val |-> <<"12B">>]>>}

InitNames ==
    InitWith({"student", "individual"},
             Workbooks(<<Liya>>, {1, 2, 3}, <<TimeCell(9, 0)>>,
                       AllCellRows(NameTexts, 1), NameRows),
             NameRooms, {<<>>}, {<<>>})

SpecNames == InitNames /\ [][NextStudent \/ NextIndividual]_vars

\* a row of days 1-5 was resolved last, by either student generator
AfterStudentRow ==
    /\ gen \in {"student", "individual"}
    /\ pc = "resolve"
    /\ di <= 5
    /\ ri > 1

\* the entity's identifier occurs in the cell as a whole word, in its own case; its
\* name occurs as whole words, in any case
WholeWord(cell, entity) ==
    IF gen = "student" THEN \E i \in 1..Len(cell) : cell[i] = entity
    ELSE Infix(LowerSeq(entity), LowerSeq(cell))

\* the texts the fallback can give the last row: one of its cells, or ""
FallbackTexts == {<<>>} \cup {LastCells[c] : c \in DOMAIN LastCells}

\* C12: a row of which no cell holds the student's identifier or name as a whole
\* word triggers neither the masterclass rule nor the direct match, in either
\* student generator: with no group tables, its entry is the fallback's
WholeWordMatch ==
    (AfterStudentRow /\ \A c \in DOMAIN LastCells : ~WholeWord(LastCells[c], entities[ei]))
        => LastText \in FallbackTexts

\* the teachers that own the deciding masterclass cell: the longest keys of
\* room_mappings that occur in the cell, else the teacher of the cell's column
OwningTeachers ==
    LET known == {room_mappings[i].key : i \in {j \in DOMAIN room_mappings :
                                                  Infix(room_mappings[j].key, DecidingCell)}}
    IN  IF known = {} THEN {DecidingTeacher}
        ELSE {k \in known : \A other \in known : TextLen(other) <= TextLen(k)}

\* the texts "<description>\n(<room>)" with the room of an owning teacher
WithOwnersRoom(description) ==
    {description \o <<"\n", "(">> \o Get(room_mappings, teacher, <<"TBD">>) \o <<")">> :
        teacher \in OwningTeachers}

\* the words of a text: its lexemes other than white space and commas
Words(t) == SelectSeq(t, LAMBDA x : ~IsSeparator(x))

\* the text before the first "\n"
RECURSIVE FirstLine(_)
FirstLine(t) ==
    IF t = <<>> \/ t[1] = "\n" THEN <<>> ELSE <<t[1]>> \o FirstLine(Tail(t))

\* C13: the text of a row decided by the masterclass rule is the cell with the
\* student's own identifier and a trailing parenthetical removed (whatever the white
\* space and commas left), then "\n(<room>)" with the room of the owning teacher
MasterclassOwnId ==
    DecidedBy(1) =>
        /\ Words(FirstLine(LastText)) =
               Words(StripTrailingParen(Strip(RemoveWord(DecidingCell, entities[ei]))))
        /\ LastText \in WithOwnersRoom(FirstLine(LastText))

\* C13, amended: the description is the cell with every student identifier, each
\* with the comma and the white space that follow it, and then a trailing
\* parenthetical removed
MasterclassAllIds ==
    DecidedBy(1) =>
        LastText \in WithOwnersRoom(Strip(StripTrailingParen(Strip(RemoveIds(DecidingCell)))))

\* a masterclass cell that names two students and a room was resolved for F1 in
\* Liya HUANG's column, with rooms for Bob and for Liya HUANG
MasterclassAllIdsWitness ==
    /\ DecidedBy(1)
    /\ DecidingCell = <<"Bob", " ", "MasterClass", " ", "F1", ",", " ", "F2", " ",
                        "(", "Room", " ", "4", ")">>
    /\ Len(room_mappings) = 2
    /\ LastText = <<"Bob", " ", "MasterClass", "\n", "(", "7", ")">>

\* the text of the last row is a masterclass cell of that row, emitted as it stands:
\* the output of the common-activity fallback (the masterclass rule appends a room)
MasterclassAsCommon ==
    /\ AfterStudentRow
    /\ HasLowerWord(LastText, "masterclass")
    /\ \E c \in DOMAIN LastCells : LastCells[c] = LastText

\* C14: the fallback emits a masterclass cell for a student only if the student's
\* identifier (name, in the name-based generator) appears in the cell
MasterclassNeverLeaks ==
    MasterclassAsCommon =>
        IF gen = "student" THEN HasWord(LastText, entities[ei])
        ELSE HasName(LastText, entities[ei])

\* the cell names students, and the current student is not among them; in the
\* name-based generator: the student's name does not appear in the cell
NamesOthersOnly(cell) ==
    IF gen = "student"
    THEN FoundStudents(cell) # {} /\ entities[ei] \notin FoundStudents(cell)
    ELSE ~HasName(cell, entities[ei])

\* C14, amended: the fallback emits a masterclass cell that names students by
\* identifier only if the current student is among them (in the name-based
\* generator: only if the student's name appears in it); a masterclass cell that
\* names other students only is not emitted
MasterclassOfOthersNeverLeaks ==
    AfterStudentRow =>
        \A c \in DOMAIN LastCells :
            (HasLowerWord(LastCells[c], "masterclass") /\ NamesOthersOnly(LastCells[c]))
                => LastText # LastCells[c]

\* the row of F12's masterclass was resolved for F1 by the id-based generator: no
\* rule fired and the fallback skipped the cell
MasterclassOfOthersNeverLeaksWitness ==
    /\ AfterStudentRow
    /\ gen = "student"
    /\ entities[ei] = "F1"
    /\ LastCells = << <<"MasterClass", " ", "F12">> >>
    /\ LastText = <<>>

(***************************************************************************)
(* The common-activity fallback: rows of two cells over shared activities, *)
(* masterclasses and matches, resolved by both student generators          *)
(***************************************************************************)
CommonTexts ==
    << <<>>,
       <<"Lunch">>,
       <<"Lunch", " ", "(", "Room", " ", "4", ")">>,
       <<"Duet">>,
       <<"F1">>,
       <<"MasterClass", " ", "F2">>,
       <<"MasterClass">>,
       <<"Ann">> >>

CommonCells == 2

\* a Monday row over the texts; the Tuesday row names the students F1 and Ann, so
\* that both exist whatever the Monday row holds
CommonBooks ==
    {[d \in 1..WeekDays |->
         [teachers |-> [c \in 1..CommonCells |-> IF c % 2 = 1 THEN Liya ELSE Bob],
          rows     |-> IF d = 1 THEN <<Row(TimeCell(9, 0), cells)>>
                       ELSE IF d = 2
                       THEN <<Row(TimeCell(9, 0),
                                  [c \in 1..CommonCells |->
                                      IF c = 1 THEN <<"F1">> ELSE <<"Ann">>])>>
                       ELSE <<>>]] :
        cells \in {AllCellRows(CommonTexts, CommonCells)[k] :
                     k \in 1..Power(Len(CommonTexts), CommonCells)}}

InitCommon ==
    InitWith({"student", "individual"}, CommonBooks, {<<>>}, {<<>>}, {<<>>})

SpecCommon == InitCommon /\ [][NextStudent \/ NextIndividual]_vars

\* the text holds a name of the allow-list of shared activities
HoldsSharedName(cell) ==
    \E k \in 1..Len(common_activities) :
        \E i \in 1..Len(cell) : OccursAt(common_activities[k], cell, i)

\* the cells of the last row the allow-list admits
SharedCells == {c \in DOMAIN LastCells : HoldsSharedName(LastCells[c])}

\* no cell of the last row satisfies an entity rule: rules 1-4 of the id-based
\* generator; in the name-based generator (no group table) no cell holds the name
NoEntityMatch ==
    IF gen = "student" THEN MatchingCells = {}
    ELSE \A c \in DOMAIN LastCells : ~HasName(LastCells[c], entities[ei])

\* C15: on days 1-5 a row in which no rule 1-4 matched gets the full text of the
\* first cell, in column order, that is in the allow-list of shared activities; a
\* row with an entity match gets the output of the rule, never a common activity
CommonFallback ==
    AfterStudentRow =>
        /\ (NoEntityMatch /\ SharedCells # {}) => LastText = LastCells[Least(SharedCells)]
        /\ (gen = "student" /\ MatchingCells # {}) =>
               LastText = RuleOutput(DecidingRule, DecidingCell, entities[ei], DecidingTeacher)

\* the cells the fallback can emit: admitted by the allow-list and not a
\* masterclass of other students
EmittableCells ==
    {c \in SharedCells :
        ~(HasLowerWord(LastCells[c], "masterclass") /\ NamesOthersOnly(LastCells[c]))}

\* C15, amended: the fallback passes over the masterclass cells of other students;
\* the row gets the first remaining allow-listed cell, "" when there is none
CommonFallbackButMasterclass ==
    AfterStudentRow =>
        /\ NoEntityMatch =>
               LastText = IF EmittableCells = {} THEN <<>>
                          ELSE LastCells[Least(EmittableCells)]
        /\ (gen = "student" /\ MatchingCells # {}) =>
               LastText = RuleOutput(DecidingRule, DecidingCell, entities[ei], DecidingTeacher)

\* F2's masterclass stands before the lunch in F1's row: F1 gets the lunch
CommonFallbackButMasterclassWitness ==
    /\ AfterStudentRow
    /\ gen = "student"
    /\ entities[ei] = "F1"
    /\ LastCells = << <<"MasterClass", " ", "F2">>, <<"Lunch", " ", "(", "Room", " ", "4", ")">> >>
    /\ LastText = <<"Lunch", " ", "(", "Room", " ", "4", ")">>

(***************************************************************************)
(* Absence: the rows of the fallback family, resolved by all generators    *)
(***************************************************************************)
InitAbsence ==
    InitWith({"student", "individual", "legacy", "teacher"}, CommonBooks,
             {<<>>}, {<<>>}, {<<>>})

SpecAbsence ==
    InitAbsence /\ [][NextStudent \/ NextIndividual \/ NextLegacy \/ NextTeacher]_vars

\* a row of days 1-5 was resolved last, by any generator; the rows of the family are
\* at 09:00 and pass every time filter
AfterAnyRow ==
    /\ pc = "resolve"
    /\ di <= 5
    /\ ri > 1

\* the entries of the schedule at the time of the last row
EntriesAtLastTime ==
    {k \in DOMAIN schedule : schedule[k].time = StudentTime(LastRow.time)}

\* neither a rule nor the fallback finds anything in the last row: for a student,
\* no entity match and no cell the fallback emits; for the first student generator
\* (no group table), no cell with the identifier, none that starts with "Master
\* class with" and none equal to a name of its list; for a teacher, an empty cell
\* in the teacher's own column
NothingMatches ==
    CASE gen \in {"student", "individual"} -> NoEntityMatch /\ EmittableCells = {}
      [] gen = "legacy" ->
             \A c \in DOMAIN LastCells :
                 /\ ~HasWord(LastCells[c], entities[ei])
                 /\ ~(/\ Len(LastCells[c]) >= 5
                      /\ SubSeq(LastCells[c], 1, 5) = <<"Master", " ", "class", " ", "with">>)
                 /\ \A k \in DOMAIN legacy_common_activities :
                        legacy_common_activities[k] # LastCells[c]
      [] gen = "teacher" ->
             LastCells[TeacherColumn(sheets[di].teachers, entities[ei], di - 1)] = <<>>

\* C16: a row in which nothing matches gives a student schedule exactly one entry,
\* with the empty string, and a teacher schedule an entry with the text "Free Time"
AbsenceEntry ==
    (AfterAnyRow /\ NothingMatches) =>
        CASE gen \in {"student", "individual"} ->
                 /\ Cardinality(EntriesAtLastTime) = 1
                 /\ \A k \in EntriesAtLastTime : schedule[k].text = <<>>
          [] gen = "teacher" ->
                 \E k \in EntriesAtLastTime : schedule[k].text = <<"Free", " ", "Time">>
          [] OTHER -> TRUE

\* C16, amended: the entry with "Free Time" is the first student generator's; a
\* teacher schedule gets no entry for a row whose cell in the teacher's column is
\* empty
AbsenceEntryPerGenerator ==
    (AfterAnyRow /\ NothingMatches) =>
        CASE gen \in {"student", "individual"} ->
                 /\ Cardinality(EntriesAtLastTime) = 1
                 /\ \A k \in EntriesAtLastTime : schedule[k].text = <<>>
          [] gen = "legacy" ->
                 /\ Cardinality(EntriesAtLastTime) = 1
                 /\ \A k \in EntriesAtLastTime : schedule[k].text = <<"Free", " ", "Time">>
          [] gen = "teacher" -> EntriesAtLastTime = {}

\* Bob's Monday cell is empty beside a lunch in the other column: Bob's schedule
\* has no entry after the row
AbsenceEntryPerGeneratorWitness ==
    /\ AfterAnyRow
    /\ gen = "teacher"
    /\ entities[ei] = Bob
    /\ di = 1
    /\ LastCells = << <<"Lunch">>, <<>> >>
    /\ schedule = <<>>

(***************************************************************************)
(* The Saturday family: rows of day 6 inside every time window, resolved   *)
(* for students and for teachers                                           *)
(***************************************************************************)
SaturdayRows == 2

CheckIn == <<"Check", " ", "in", " ", "Maritime", " ", "Museum">>

Rehearsal == <<"Rehearsal">>

CallTime == <<"Concert", " ", "call", " ", "time">>

SaturdayCells ==
    << <<CheckIn, CheckIn>>,
       <<<<>>, CheckIn>>,
       <<Rehearsal, <<>>>>,
       <<<<>>, Rehearsal>>,
       <<Rehearsal, CallTime>>,
       <<CallTime, Rehearsal>>,
       <<Rehearsal, CheckIn>>,
       <<<<>>, <<>>>> >>

\* the Saturday rows are at 11:00, 12:00, ...; the Tuesday and Wednesday rows name
\* the students F1, F2 and Ann, Anna
SaturdayBooks ==
    {[d \in 1..WeekDays |->
         [teachers |-> <<Liya, Bob>>,
          rows     |-> IF d = 6
                       THEN SheetRows([k \in 1..SaturdayRows |-> TimeCell(10 + k, 0)],
                                      SaturdayCells, p, 1)
                       ELSE IF d = 2 THEN <<Row(TimeCell(9, 0), <<<<"F1">>, <<"F2">>>>)>>
                       ELSE IF d = 3 THEN <<Row(TimeCell(9, 0), <<<<"Ann">>, <<"Anna">>>>)>>
                       ELSE <<>>]] :
        p \in [1..SaturdayRows -> 0..Len(SaturdayCells)]}

InitSaturday ==
    InitWith({"student", "individual", "teacher"}, SaturdayBooks, {<<>>}, {<<>>}, {<<>>})

SpecSaturday == InitSaturday /\ [][NextStudent \/ NextIndividual \/ NextTeacher]_vars

\* a row of day 6 was resolved last
AfterSaturdayRow ==
    /\ pc = "resolve"
    /\ di = 6
    /\ ri > 1

\* the first non-empty cell of the last row, <<>> when every cell is empty
FirstCell ==
    LET nonempty == {c \in DOMAIN LastCells : LastCells[c] # <<>>}
    IN  IF nonempty = {} THEN <<>> ELSE LastCells[Least(nonempty)]

\* the last row is a check-in row
CheckInRow == Infix(CheckIn, FirstCell)

\* the texts of the entries of the schedule at the time of the last row
TextsAtLastTime == {schedule[k].text : k \in EntriesAtLastTime}

\* C17: the text of a day-6 row that is no check-in row is the text of its first
\* non-empty cell, for a student and for a teacher alike
SaturdayFirstCell ==
    (AfterSaturdayRow /\ FirstCell # <<>> /\ ~CheckInRow) => TextsAtLastTime = {FirstCell}

\* the cell of the last row in the current teacher's column
OwnCell == LastCells[TeacherColumn(sheets[di].teachers, entities[ei], di - 1)]

\* C17, amended: a student gets the first non-empty cell; a teacher gets the cell
\* of the teacher's own column, "Lunch" when it holds "Concert call time", and no
\* entry when it is empty
SaturdayFirstOrOwnCell ==
    AfterSaturdayRow =>
        IF gen = "teacher"
        THEN TextsAtLastTime =
                 IF OwnCell = <<>> THEN {}
                 ELSE IF OwnCell = CallTime THEN {<<"Lunch">>}
                 ELSE {OwnCell}
        ELSE (FirstCell # <<>> /\ ~CheckInRow) => TextsAtLastTime = {FirstCell}

\* Bob's Saturday row holds a rehearsal in Liya HUANG's column and the call time in
\* his own: his entry is "Lunch"
SaturdayFirstOrOwnCellWitness ==
    /\ AfterSaturdayRow
    /\ gen = "teacher"
    /\ entities[ei] = Bob
    /\ LastCells = <<Rehearsal, CallTime>>
    /\ TextsAtLastTime = {<<"Lunch">>}

(***************************************************************************)
(* The check-in family: sequences of Saturday rows with check-in cells in  *)
(* and out of the time window, for two students of each student generator  *)
(***************************************************************************)
CheckInRows == 2

CheckInRowSet ==
    <<Row(TimeCell(11, 0), <<CheckIn, <<>>>>),
      Row(TimeCell(12, 0), <<<<>>, CheckIn>>),
      Row(TimeCell(11, 0), <<Rehearsal, CheckIn>>),
      Row(TimeCell(16, 30), <<CheckIn, CheckIn>>),
      Row(TimeCell(17, 0), <<CheckIn, <<>>>>),
      Row(StrCell(<<>>), <<CheckIn, <<>>>>)>>

\* the Saturday sheet holds any sequence of at most CheckInRows of the rows; the
\* Tuesday and Wednesday rows name the students F1, F2 and Ann, Anna
CheckInBooks ==
    {[d \in 1..WeekDays |->
         [teachers |-> <<Liya, Bob>>,
          rows     |-> IF d = 6 THEN [k \in DOMAIN f |-> CheckInRowSet[f[k]]]
                       ELSE IF d = 2 THEN <<Row(TimeCell(9, 0), <<<<"F1">>, <<"F2">>>>)>>
                       ELSE IF d = 3 THEN <<Row(TimeCell(9, 0), <<<<"Ann">>, <<"Anna">>>>)>>
                       ELSE <<>>]] :
        f \in UNION {[1..n -> 1..Len(CheckInRowSet)] : n \in 0..CheckInRows}}

InitCheckIn ==
    InitWith({"student", "individual"}, CheckInBooks, {<<>>}, {<<>>}, {<<>>})

SpecCheckIn == InitCheckIn /\ [][NextStudent \/ NextIndividual]_vars

\* the rows of the Saturday sheet resolved so far for the current student
RowsSoFar == IF pc = "resolve" /\ di = 6 THEN 1..(ri - 1) ELSE {}

\* the check-in rows among them
CheckInRowsSoFar == {k \in RowsSoFar : IsCheckInRow(sheets[6].rows[k])}

\* the row is dropped by the time filters of day 6, or is in the free-time block of
\* the id-based generator: no time key, or a clock time from 17:00 (16:30) on
OutOfWindow(r) ==
    LET key   == IF gen = "student" THEN StudentTime(r.time) ELSE IndividualTime(r.time)
        clock == ParseClock(key, FALSE)
    IN  \/ key = <<>>
        \/ IsNoneOrNan(key)
        \/ /\ clock.ok
           /\ Minutes(clock.h, clock.m) >=
                  (IF gen = "student" THEN Minutes(16, 30) ELSE Minutes(17, 0))

\* the entries of the schedule with the composite check-in text
ExpansionEntries ==
    {k \in DOMAIN schedule :
        schedule[k].text = <<"Check", " ", "in", " ", "Maritime", " ", "Museum", "\n",
                             "Briefing", " ", "for", " ", "Saturday", " ", "Concert", "\n",
                             "Maritime", " ", "Museum", " ", "Tour">>}

\* the schedule holds the four entries 10:00, 10:15, 10:30, 10:45 of the expansion
\* and no other entry with its text
FourExpansionEntries ==
    /\ Cardinality(ExpansionEntries) = 4
    /\ {schedule[k].time : k \in ExpansionEntries} =
           {<<"1", "0", ":", "0", "0">>, <<"1", "0", ":", "1", "5">>,
            <<"1", "0", ":", "3", "0">>, <<"1", "0", ":", "4", "5">>}

\* C18: on day 6 the first check-in row of any sequence of rows adds the four
\* entries and the later ones add nothing: once a check-in row is resolved the
\* schedule holds exactly four expansion entries, before that none; the flag is
\* down when a day of a student starts
CheckInOnce ==
    /\ (pc = "resolve" /\ di = 6) =>
           IF CheckInRowsSoFar = {} THEN ExpansionEntries = {} ELSE FourExpansionEntries
    /\ (pc = "resolve" /\ ri = 1) => ~check_in_added

\* C18, amended: the rows that count are the check-in rows inside the time window
CheckInOnceInWindow ==
    /\ (pc = "resolve" /\ di = 6) =>
           IF \A k \in CheckInRowsSoFar : OutOfWindow(sheets[6].rows[k])
           THEN ExpansionEntries = {} /\ ~check_in_added
           ELSE FourExpansionEntries /\ check_in_added
    /\ (pc = "resolve" /\ ri = 1) => ~check_in_added

\* the second student's Saturday with two check-in rows in the window: four
\* expansion entries after the second row
CheckInOnceInWindowWitness ==
    /\ pc = "resolve"
    /\ gen = "student"
    /\ di = 6
    /\ ei = 2
    /\ ri = 3
    /\ CheckInRowsSoFar = {1, 2}
    /\ \A k \in {1, 2} : ~OutOfWindow(sheets[6].rows[k])
    /\ FourExpansionEntries

(***************************************************************************)
(* The group family: one Monday row whose cells name groups, for the       *)
(* id-based student generator                                              *)
(***************************************************************************)
\* the most teacher columns a sheet of the group family holds
GroupCells == 2

GroupTexts ==
    <<<<>>,
      <<"Group", " ", "2", ",", " ", "5", " ", "Acting", " ", "Class", " ", "(", "Room", " ", "4", ")">>,
      <<"Group", " ", "1", ",", " ", "2", " ", "Duet">>,
      <<"Group", " ", "1", ",", " ", "5", " ", "Group", " ", "Game">>,
      <<"Group", " ", "2", ",", " ", "5", " ", "Duet", " ", "(", "Room", " ", "4", ")">>,
      <<"group", " ", "1", ",", " ", "Duet", " ", "5">>,
      <<"Group", " ", "1">>,
      <<"Group", " ", "10">>,
      <<"Group", " ", "1", " ", "(", "room", " ", "4", ")">>>>

\* Monday holds one row of group cells; Tuesday's row names the two students
GroupBooks ==
    {[d \in 1..WeekDays |->
         [teachers |-> [c \in 1..GroupCells |-> IF c % 2 = 1 THEN Liya ELSE Bob],
          rows     |-> IF d = 1 THEN <<Row(TimeCell(9, 0), cells)>>
                       ELSE IF d = 2
                       THEN <<Row(TimeCell(9, 0),
                                  [c \in 1..GroupCells |->
                                      IF c = 1 THEN <<"F1">> ELSE <<"F2">>])>>
                       ELSE <<>>]] :
        cells \in {AllCellRows(GroupTexts, GroupCells)[k] :
                     k \in 1..Power(Len(GroupTexts), GroupCells)}}

InitGroups == InitWith({"student"}, GroupBooks, RuleRooms, RuleGroups, {<<>>})

SpecGroups == InitGroups /\ [][NextStudent]_vars

\* the group numbers and the phrase of each "Group a, b <phrase>" cell of the
\* family: the tokens of digits, and the other tokens joined by single spaces
QualifierOf(cell) ==
    CASE cell = GroupTexts[2] ->
             [numbers |-> {"2", "5"},
              phrase  |-> <<"Acting", " ", "Class", " ", "(", "Room", " ", "4", ")">>]
      [] cell = GroupTexts[3] -> [numbers |-> {"1", "2"}, phrase |-> <<"Duet">>]
      [] cell = GroupTexts[4] ->
             [numbers |-> {"1", "5"}, phrase |-> <<"Group", " ", "Game">>]
      [] cell = GroupTexts[5] ->
             [numbers |-> {"2", "5"},
              phrase  |-> <<"Duet", " ", "(", "Room", " ", "4", ")">>]
      [] cell = GroupTexts[6] -> [numbers |-> {"1", "5"}, phrase |-> <<"Duet">>]
      [] OTHER -> [numbers |-> {}, phrase |-> <<>>]

\* the groups a cell's numbers name
QualifierGroups(cell) == {<<"Group", " ", n>> : n \in QualifierOf(cell).numbers}

RoomActingClass == <<"Room", " ", "Acting", " ", "Class">>

\* the rooms mapped to the key "Room Acting Class", the key itself when none is
ActingRooms ==
    LET mapped == {room_mappings[i].val :
                      i \in {j \in DOMAIN room_mappings :
                                room_mappings[j].key = RoomActingClass}}
    IN  IF mapped = {} THEN {RoomActingClass} ELSE mapped

\* the entry the qualifier rule gives for a phrase
QualifierTexts(phrase) ==
    IF Infix(<<"acting", " ", "class">>, LowerSeq(phrase))
    THEN {<<"Acting", " ", "Class", "\n", "(">> \o room \o <<")">> : room \in ActingRooms}
    ELSE IF HasLowerWord(phrase, "group") \/ HasLowerWord(phrase, "room")
    THEN {phrase}
    ELSE {phrase \o <<"\n", "(", "Group", ")">>}

\* a cell of the last row starts with "Group", holds a comma, names a group of the
\* student, and no cell before it satisfies a rule
FirstQualifierCells ==
    {c \in DOMAIN LastCells :
        /\ LastCells[c] # <<>>
        /\ Lower(LastCells[c][1]) = "group"
        /\ HasWord(LastCells[c], ",")
        /\ StudentGroups(student_to_groups, entities[ei]) \cap QualifierGroups(LastCells[c]) # {}
        /\ \A b \in 1..(c - 1) : RulesOf(LastCells[b], entities[ei]) = {}}

\* C19: a cell that starts with "Group" and holds a comma names the groups of its
\* numeric tokens and the phrase of its other tokens; for a student of one of
\* those groups the entry is "Acting Class\n(<room>)" when the phrase holds
\* "acting class" (the room mapped to "Room Acting Class", that key when none
\* is), the phrase itself when it holds "group" or "room", and otherwise the
\* phrase followed by "(Group)" on a line of its own
GroupWithQualifier ==
    AfterWeekdayRow =>
        /\ DecidedBy(3) =>
               /\ Least(MatchingCells) \in FirstQualifierCells
               /\ Len(schedule) = 1
               /\ LastText \in QualifierTexts(QualifierOf(DecidingCell).phrase)
        /\ FirstQualifierCells # {} => DecidedBy(3)

\* F1 of Group 5, with no room mapped, got the acting class of groups 2 and 5
GroupWithQualifierWitness ==
    /\ DecidedBy(3)
    /\ entities[ei] = "F1"
    /\ DecidingCell = GroupTexts[2]
    /\ StudentGroups(student_to_groups, "F1") = {<<"Group", " ", "5">>}
    /\ room_mappings = <<>>
    /\ LastText = <<"Acting", " ", "Class", "\n", "(", "Room", " ", "Acting", " ", "Class", ")">>

\* the student's-group names that are literal prefixes of each "Group n" cell of
\* the family, and the room the cell names in brackets
SimpleOf(cell) ==
    CASE cell = GroupTexts[7] ->
             [prefixes |-> {<<"Group", " ", "1">>}, room |-> <<>>]
      [] cell = GroupTexts[8] ->
             [prefixes |-> {<<"Group", " ", "1">>, <<"Group", " ", "10">>}, room |-> <<>>]
      [] cell = GroupTexts[9] ->
             [prefixes |-> {<<"Group", " ", "1">>}, room |-> <<"4">>]
      [] OTHER -> [prefixes |-> {}, room |-> <<>>]

\* the groups of the student that are literal prefixes of the cell
PrefixGroups(cell) ==
    StudentGroups(student_to_groups, entities[ei]) \cap SimpleOf(cell).prefixes

\* the entry of the simple group rule: the room named in the cell, else a room of
\* the column teacher, else "TBD"
EnsembleTexts(cell, teacher) ==
    IF SimpleOf(cell).room # <<>>
    THEN {<<"Ensemble", "\n", "(", "Room", " ">> \o SimpleOf(cell).room \o <<")">>}
    ELSE {<<"Ensemble", "\n", "(">> \o room \o <<")">> :
             room \in (IF RoomsOf(teacher) = {} THEN {<<"TBD">>} ELSE RoomsOf(teacher))}

\* a cell of the last row starts with "Group", holds no comma, has a group of the
\* student as a prefix, and no cell before it satisfies a rule
FirstSimpleCells ==
    {c \in DOMAIN LastCells :
        /\ LastCells[c] # <<>>
        /\ LastCells[c][1] = "Group"
        /\ ~HasWord(LastCells[c], ",")
        /\ PrefixGroups(LastCells[c]) # {}
        /\ \A b \in 1..(c - 1) : RulesOf(LastCells[b], entities[ei]) = {}}

\* C20: for a cell that starts with "Group" and holds no comma, a student of a
\* group whose name is a literal prefix of the cell gets "Ensemble\n(<room>)", the
\* room being "Room X" of a "(Room X)" in the cell and otherwise the room mapped
\* to the column teacher whatever the letter case of the key, "TBD" when none is;
\* one entry is added however many of the student's groups are prefixes
SimpleGroupMatch ==
    AfterWeekdayRow =>
        /\ (DecidedBy(4) /\ ~HasWord(DecidingCell, ",")) =>
               /\ Least(MatchingCells) \in FirstSimpleCells
               /\ Len(schedule) = 1
               /\ LastText \in EnsembleTexts(DecidingCell, DecidingTeacher)
        /\ FirstSimpleCells # {} => DecidedBy(4)

\* F1 of groups 1 and 10 got one ensemble for the cell "Group 10", in the room
\* mapped to the column teacher under another letter case
SimpleGroupMatchWitness ==
    /\ DecidedBy(4)
    /\ entities[ei] = "F1"
    /\ DecidingCell = GroupTexts[8]
    /\ Cardinality(PrefixGroups(DecidingCell)) = 2
    /\ DecidingTeacher = Liya
    /\ room_mappings # <<>>
    /\ room_mappings[1].key = <<"liya", " ", "huang">>
    /\ Len(schedule) = 1
    /\ LastText = <<"Ensemble", "\n", "(", "12B", ")">>

(***************************************************************************)
(* The pianist family: one Monday row of lessons with a pianist, for both  *)
(* student generators                                                      *)
(***************************************************************************)
PianistTexts ==
    <<<<>>,
      <<"F1", " ", "Private", " ", "Lesson", " ", "with", " ", "Bob", " ", "&", " ", "pianist">>,
      <<"Ann", " ", "Lesson", " ", "with", " ", "Bob", " ", "&", " ", "pianist">>,
      <<"F1", " ", "lesson", " ", "with", " ", "Liya", " ", "HUANG", " ", "&", " ", "pianist">>,
      <<"Ann", " ", "Private", " ", "Lesson", " ", "with", " ", "Liya", " ", "HUANG", " ", "&", " ", "Pianist">>>>

\* room_mappings of the pianist family: no file, both teachers, the first header
\* in another letter case, the second header only
PianistRooms ==
    {<<>>,
     <<[key |-> Bob, val |-> <<"7">>], [key |-> Liya, val |-> <<"12B">>]>>,
     <<[key |-> <<"liya", " ", "huang">>, val |-> <<"12B">>]>>,
     <<[key |-> Bob, val |-> <<"7">>]>>}

\* Monday holds one row of two cells; Tuesday's and Wednesday's rows name the
\* students
PianistBooks ==
    {[d \in 1..WeekDays |->
         [teachers |-> <<Liya, Bob>>,
          rows     |-> IF d = 1 THEN <<Row(TimeCell(9, 0), <<PianistTexts[a], PianistTexts[b]>>)>>
                       ELSE IF d = 2 THEN <<Row(TimeCell(9, 0), <<<<"F1">>, <<"F2">>>>)>>
                       ELSE IF d = 3 THEN <<Row(TimeCell(9, 0), <<<<"Ann">>, <<"Anna">>>>)>>
                       ELSE <<>>]] :
        a \in 1..Len(PianistTexts), b \in 1..Len(PianistTexts)}

InitPianist ==
    InitWith({"student", "individual"}, PianistBooks, PianistRooms, {<<>>}, {<<>>})

SpecPianist == InitPianist /\ [][NextStudent \/ NextIndividual]_vars

\* the teacher a lesson cell of the family names, for the cells that hold the
\* identifier F1 and for those that hold the name Ann
LessonOf(cell) ==
    CASE cell = PianistTexts[2] -> [id |-> TRUE, teacher |-> Bob]
      [] cell = PianistTexts[3] -> [id |-> FALSE, teacher |-> Bob]
      [] cell = PianistTexts[4] -> [id |-> TRUE, teacher |-> Liya]
      [] cell = PianistTexts[5] -> [id |-> FALSE, teacher |-> Liya]

\* the cells of the last row that hold a lesson with a pianist of the student
LessonCells ==
    {c \in DOMAIN LastCells :
        /\ LastCells[c] # <<>>
        /\ IF gen = "student"
           THEN LessonOf(LastCells[c]).id /\ entities[ei] = "F1"
           ELSE ~LessonOf(LastCells[c]).id /\ entities[ei] = <<"Ann">>}

\* the room mapped to exactly this teacher, "TBD" when there is none
ExactRooms(teacher) ==
    LET mapped == {room_mappings[i].val :
                      i \in {j \in DOMAIN room_mappings : room_mappings[j].key = teacher}}
    IN  IF mapped = {} THEN {<<"TBD">>} ELSE mapped

\* C21: when the text left after removing the student's identifier matches
\* "lesson with <teacher> & pianist", the entry is "Private Lesson with <teacher
\* named in the text> & pianist\n(<room>)" with the room of the teacher of the
\* cell's column, whoever the text names
PianistLesson ==
    (AfterStudentRow /\ di = 1 /\ LessonCells # {}) =>
        /\ Len(schedule) = 1
        /\ LastText \in
               {<<"Private", " ", "Lesson", " ", "with", " ">>
                    \o LessonOf(LastCells[Least(LessonCells)]).teacher
                    \o <<" ", "&", " ", "pianist", "\n", "(">> \o room \o <<")">> :
                  room \in ExactRooms(sheets[di].teachers[Least(LessonCells)])}

\* Ann's lesson with Bob and a pianist, in the column of Liya HUANG, got the room
\* of Liya HUANG although Bob's room is mapped too
PianistLessonWitness ==
    /\ AfterStudentRow
    /\ di = 1
    /\ gen = "individual"
    /\ entities[ei] = <<"Ann">>
    /\ LastCells[1] = PianistTexts[3]
    /\ Len(room_mappings) = 2
    /\ LastText = <<"Private", " ", "Lesson", " ", "with", " ", "Bob", " ", "&", " ",
                    "pianist", "\n", "(", "12B", ")">>

(***************************************************************************)
(* The header family: the teacher generator on sheets whose headers differ *)
(* in letter case                                                          *)
(***************************************************************************)
HeaderNames == <<Liya, <<"liya", " ", "huang">>, Bob>>

HeaderTexts == <<<<>>, <<"F1">>, <<"Lunch">>>>

\* Monday and Tuesday hold one row of one cell under a header of their own; the
\* other sheets have Monday's header and no rows
HeaderBooks ==
    {[d \in 1..WeekDays |->
         [teachers |-> <<HeaderNames[IF d = 2 THEN h[2] ELSE h[1]]>>,
          rows     |-> IF d <= 2 THEN <<Row(TimeCell(9, 0), <<HeaderTexts[t[d]]>>)>>
                       ELSE <<>>]] :
        h \in [1..2 -> 1..Len(HeaderNames)], t \in [1..2 -> 1..Len(HeaderTexts)]}

InitHeaders == InitWith({"teacher"}, HeaderBooks, {<<>>}, {<<>>}, {<<>>})

SpecHeaders == InitHeaders /\ [][NextTeacher]_vars

\* the sheets whose header holds the name, whatever its letter case
SheetsOf(teacher) ==
    {d \in DOMAIN sheets :
        \E c \in DOMAIN sheets[d].teachers :
            LowerSeq(sheets[d].teachers[c]) = LowerSeq(teacher)}

\* C22: the teacher's column is found by comparing header names whatever their
\* letter case: headers that differ only in case are one teacher, whose saved
\* schedule covers every sheet that names the teacher
HeaderCaseInsensitive ==
    gen = "teacher" =>
        /\ \A k, l \in DOMAIN saved :
               LowerSeq(saved[k].entity) = LowerSeq(saved[l].entity) => k = l
        /\ \A k \in DOMAIN saved :
               SheetsOf(saved[k].entity) \subseteq DOMAIN saved[k].daily

(***************************************************************************)
(* The value written into a cell of the output sheet                       *)
(***************************************************************************)
\* str.replace(old, new), a replacement of characters: old also matches where its
\* last word starts a longer word
RECURSIVE ReplaceText(_, _, _)
ReplaceText(t, old, new) ==
    LET n == Len(old)
    IN  IF t = <<>> \/ Len(t) < n THEN t
        ELSE IF SubSeq(t, 1, n) = old
        THEN new \o ReplaceText(SubSeq(t, n + 1, Len(t)), old, new)
        ELSE IF SubSeq(t, 1, n - 1) = SubSeq(old, 1, n - 1) /\ Rest(old[n], t[n]) # ""
        THEN GlueLast(new, Rest(old[n], t[n]))
                 \o ReplaceText(SubSeq(t, n + 1, Len(t)), old, new)
        ELSE <<t[1]>> \o ReplaceText(Tail(t), old, new)

\* RoomNumbers with a text that holds no mapped room name dropped
RoomNumbersOrNothing(cell_activity, map) ==
    LET hit == {i \in DOMAIN map : Infix(map[i].key, cell_activity)}
    IN  IF hit = {} THEN <<>>
        ELSE LET i == CHOOSE a \in hit : \A b \in hit : a <= b
             IN  ReplaceText(cell_activity, map[i].key, map[i].val)

\* `for r_name, r_number in room_no_map.items(): cell_activity =
\* cell_activity.replace(r_name, r_number)`
RECURSIVE RoomNumbers(_, _)
RoomNumbers(cell_activity, map) ==
    IF map = <<>> THEN cell_activity
    ELSE RoomNumbers(ReplaceText(cell_activity, map[1].key, map[1].val), Tail(map))

\* the position of the first ")" after position i, 0 when there is none
CloseOf(t, i) ==
    LET close == {j \in (i + 1)..Len(t) : t[j] = ")"}
    IN  IF close = {} THEN 0 ELSE CHOOSE j \in close : \A k \in close : j <= k

\* lines 509-513: the bracket opened at i holds a room code, the word "room" or
\* the word "Group" alone
IsRoomBracket(t, i) ==
    LET j == CloseOf(t, i)
    IN  /\ t[i] = "("
        /\ j # 0
        /\ \/ j = i + 2 /\ IsStudentId(t[i + 1])
           \/ \E k \in (i + 1)..(j - 1) : Lower(t[k]) = "room"
           \/ j = i + 2 /\ Lower(t[i + 1]) = "group"

\* t without the white space at its end
RECURSIVE RStrip(_)
RStrip(t) ==
    IF t # <<>> /\ IsSpace(t[Len(t)]) THEN RStrip(SubSeq(t, 1, Len(t) - 1)) ELSE t

\* lines 509-513 and 517-518: each such bracket starts a line of its own
RECURSIVE BracketLines(_, _, _)
BracketLines(out, t, i) ==
    IF i > Len(t) THEN out
    ELSE IF IsRoomBracket(t, i)
    THEN BracketLines(RStrip(out) \o <<"\n">> \o SubSeq(t, i, CloseOf(t, i)), t,
                      CloseOf(t, i) + 1)
    ELSE BracketLines(Append(out, t[i]), t, i + 1)

\* lines 514 and 517-518: the word "or" between white space starts a line
RECURSIVE OrLines(_, _, _)
OrLines(out, t, i) ==
    IF i > Len(t) THEN out
    ELSE IF /\ Lower(t[i]) = "or"
            /\ out # <<>> /\ IsSpace(out[Len(out)])
            /\ i < Len(t) /\ IsSpace(t[i + 1])
    THEN LET after == CHOOSE j \in (i + 2)..(Len(t) + 1) :
                          /\ (j <= Len(t) => ~IsSpace(t[j]))
                          /\ \A k \in (i + 1)..(j - 1) : IsSpace(t[k])
         IN  OrLines(RStrip(out) \o <<"\n", t[i]>>, t, after)
    ELSE OrLines(Append(out, t[i]), t, i + 1)

\* re.sub(r'\n+', '\n', cell_activity)
RECURSIVE OneNewline(_)
OneNewline(t) ==
    IF Len(t) < 2 THEN t
    ELSE IF t[1] = "\n" /\ t[2] = "\n" THEN OneNewline(Tail(t))
    ELSE <<t[1]>> \o OneNewline(Tail(t))

\* generate_student_timetables.py lines 503-529: the value of a cell of a
\* student's sheet
StudentCellValue(activity, map) ==
    LET cell_activity == IF activity = FREE_TIME_BLOCK THEN <<>> ELSE activity
        brackets      == BracketLines(<<>>, cell_activity, 1)
    IN  RoomNumbers(Strip(OneNewline(OrLines(<<>>, brackets, 1))), map)

\* the text with its first occurrence of old replaced by new
ReplaceFirst(t, old, new) ==
    LET hit == {i \in 1..Len(t) : OccursAt(old, t, i)}
    IN  IF hit = {} THEN t
        ELSE LET i == CHOOSE a \in hit : \A b \in hit : a <= b
             IN  SubSeq(t, 1, i - 1) \o new \o SubSeq(t, i + Len(old), Len(t))

\* generate_teacher_timetables.py lines 272-290: the value of a cell of a
\* teacher's sheet
TeacherCellValue(activity, map) ==
    LET cell_activity == IF activity \in {EVENING_MERGE_BLOCK, SATURDAY_MORNING_MERGE_BLOCK}
                         THEN <<>> ELSE activity
        no_stars      == SelectSeq(cell_activity, LAMBDA x : x # "*")
        room_line     == IF /\ HasWord(no_stars, "(") /\ HasWord(no_stars, ")")
                            /\ ~Infix(<<"\n", "(">>, no_stars)
                         THEN ReplaceFirst(no_stars, <<"(">>, <<"\n", "(">>)
                         ELSE no_stars
        coaching_line == IF /\ Infix(<<"Ensemble", " ", "Coaching">>, room_line)
                            /\ ~Infix(<<"\n", "Ensemble", " ", "Coaching">>, room_line)
                         THEN ReplaceFirst(room_line, <<" ", "Ensemble", " ", "Coaching">>,
                                           <<"\n", "Ensemble", " ", "Coaching">>)
                         ELSE room_line
    IN  RoomNumbers(coaching_line, map)

\* the value of the cell a block of a saved sheet is written to
CellValue(b) ==
    IF gen = "teacher" THEN TeacherCellValue(b.text, room_no_map)
    ELSE StudentCellValue(b.text, room_no_map)

(***************************************************************************)
(* The mapping family: the student and the teacher generator with each of  *)
(* the four mapping tables missing, lacking the entry, or holding it       *)
(***************************************************************************)
AnnLee == <<"Ann", " ", "Lee">>

MappingTexts ==
    <<<<>>,
      <<"F1">>,
      <<"MasterClass", " ", "F1">>,
      <<"Group", " ", "1">>,
      <<"F1", " ", "Duet", " ", "(", "Room", " ", "4", ")">>>>

\* each table as loaded from no file, from a file without the entry, and from a
\* file with it
MappingRooms ==
    {<<>>, <<[key |-> Bob, val |-> <<"7">>]>>, <<[key |-> Liya, val |-> <<"12B">>]>>}

MappingGroups ==
    {<<>>, ("F2" :> {<<"Group", " ", "1">>}), ("F1" :> {<<"Group", " ", "1">>})}

MappingNames ==
    {<<>>, <<[key |-> "F2", val |-> <<"Ben">>]>>, <<[key |-> "F1", val |-> AnnLee]>>}

MappingRoomNos ==
    {<<>>,
     <<[key |-> <<"Room", " ", "9">>, val |-> <<"109">>]>>,
     <<[key |-> <<"Room", " ", "4">>, val |-> <<"246">>]>>}

\* Monday holds one row of one cell; Tuesday's row names the student
MappingBooks ==
    {[d \in 1..WeekDays |->
         [teachers |-> <<Liya>>,
          rows     |-> IF d = 1 THEN <<Row(TimeCell(9, 0), <<MappingTexts[t]>>)>>
                       ELSE IF d = 2 THEN <<Row(TimeCell(9, 0), <<<<"F1">>>>)>>
                       ELSE <<>>]] :
        t \in 1..Len(MappingTexts)}

InitMapping ==
    /\ gen \in {"student", "teacher"}
    /\ sheets \in MappingBooks
    /\ room_mappings \in MappingRooms
    /\ student_to_groups \in MappingGroups
    /\ student_name_map \in MappingNames
    /\ room_no_map \in MappingRoomNos
    /\ Start(sheets)
    /\ run = 1
    /\ first_run = <<>>

SpecMapping == InitMapping /\ [][NextStudent \/ NextTeacher]_vars

\* the steps the current entity's resolution has left from sheet d on: one for
\* each row and one for the end of each sheet
RECURSIVE StepsFrom(_)
StepsFrom(d) ==
    IF d > Len(sheets) THEN 0 ELSE Len(sheets[d].rows) + 1 + StepsFrom(d + 1)

\* the steps the run has left: those of the entities to come, and of the current
\* entity its rows and sheets left to resolve, its columns left to write and
\* its save
StepsLeft ==
    IF pc = "done" THEN 0
    ELSE (Len(entities) - ei) * (StepsFrom(1) + Len(sheets) + 1)
             + (IF pc = "resolve"
                THEN StepsFrom(di) - (ri - 1) + Len(sheets) + 1
                ELSE Len(sheets) + 2 - wd)

\* the value of the Monday 09:00 cell of the k-th saved sheet
MondayValue(k) ==
    LET first == IF gen = "teacher" THEN TeacherFirstRow ELSE StudentFirstRow
        cells == saved[k].blocks[1]
    IN  CellValue(cells[CHOOSE i \in DOMAIN cells : cells[i].row = first])

\* the run is at a row or at the end of a sheet of an entity, at a column or at
\* the save of an entity's output, or done: in each case but the last the guard
\* of a step holds
InLoop ==
    /\ pc \in {"resolve", "write", "done"}
    /\ pc = "resolve" =>
           /\ ei \in DOMAIN entities
           /\ di \in DOMAIN sheets
           /\ ri \in 1..(Len(sheets[di].rows) + 1)
    /\ pc = "write" =>
           /\ ei \in DOMAIN entities
           /\ wd \in 1..(Len(sheets) + 1)

\* what each table gives for the family's keys, and the literal text that stands
\* in when it gives nothing
RoomOfLiya == IF \E i \in DOMAIN room_mappings : room_mappings[i].key = Liya
              THEN <<"12B">> ELSE <<"TBD">>

NameOfF1 == IF \E i \in DOMAIN student_name_map : student_name_map[i].key = "F1"
            THEN AnnLee ELSE <<"F1">>

NumberOfRoom4 == IF \E i \in DOMAIN room_no_map : room_no_map[i].key = <<"Room", " ", "4">>
                 THEN <<"246">> ELSE <<"Room", " ", "4">>

F1InGroup1 == "F1" \in DOMAIN student_to_groups

\* the value the Monday cell must have
MappingValue ==
    LET cell == sheets[1].rows[1].cells[1]
    IN  IF gen = "student"
        THEN CASE cell = MappingTexts[1] -> <<>>
               [] cell = MappingTexts[2] ->
                      <<"Private", " ", "Lesson", " ", "with", " ">> \o Liya
                          \o (IF RoomOfLiya = <<"TBD">> THEN <<>>
                              ELSE <<"\n", "(">> \o RoomOfLiya \o <<")">>)
               [] cell = MappingTexts[3] ->
                      <<"MasterClass", "\n", "(">> \o RoomOfLiya \o <<")">>
               [] cell = MappingTexts[4] ->
                      IF F1InGroup1 THEN <<"Ensemble", "\n", "(">> \o RoomOfLiya \o <<")">>
                      ELSE <<>>
               [] cell = MappingTexts[5] ->
                      <<"Duet", "\n", "(">> \o NumberOfRoom4 \o <<")">>
        ELSE CASE cell = MappingTexts[1] -> <<>>
               [] cell = MappingTexts[2] -> NameOfF1
               [] cell = MappingTexts[3] -> <<"MasterClass", " ">> \o NameOfF1
               [] cell = MappingTexts[4] ->
                      <<"Group", " ", "1", "\n", "Ensemble", " ", "Coaching">>
               [] cell = MappingTexts[5] ->
                      NameOfF1 \o <<" ", "Duet", " ", "\n", "(">> \o NumberOfRoom4 \o <<")">>

\* every entity's sheet is saved, with both days that have rows and with the
\* Monday value the tables give
MappingOutput ==
    /\ Len(saved) = Len(entities)
    /\ \A k \in DOMAIN saved :
           /\ saved[k].entity = entities[k]
           /\ {1, 2} \subseteq DOMAIN saved[k].blocks
           /\ MondayValue(k) = MappingValue

\* C23: with any of the four mapping tables missing, empty or without the entry,
\* student and teacher resolution completes for every entity and row; an unmapped
\* identifier or room name stays as its literal text and an unmapped teacher room
\* is the literal "TBD"
GracefulDegradation ==
    /\ [](InLoop)
    /\ [][StepsLeft' < StepsLeft]_vars
    /\ [](pc = "done" => MappingOutput)

\* with no mapping file at all, F1's masterclass was resolved and saved with the
\* room "TBD"
GracefulDegradationWitness ==
    /\ pc = "done"
    /\ gen = "student"
    /\ room_mappings = <<>> /\ student_to_groups = <<>>
    /\ student_name_map = <<>> /\ room_no_map = <<>>
    /\ sheets[1].rows[1].cells[1] = MappingTexts[3]
    /\ Len(saved) = 1
    /\ MondayValue(1) = <<"MasterClass", "\n", "(", "TBD", ")">>

(***************************************************************************)
(* The substitution family: one Monday cell of a teacher's column that     *)
(* names groups, with and without the suffix, or student identifiers       *)
(***************************************************************************)
SubstTexts ==
    <<<<>>,
      <<"Group", " ", "1">>,
      <<"Group", " ", "10">>,
      <<"Group", " ", "1", " ", "Ensemble", " ", "Coaching">>,
      <<"Group", " ", "10", " ", "Ensemble", " ", "Coaching">>,
      <<"Group", " ", "2", " ", "&", " ", "Group", " ", "25", " ", "Ensemble", " ", "Coaching">>,
      <<"F1">>,
      <<"F12">>,
      <<"F1", " ", "&", " ", "F12">>,
      <<"F12", " ", "&", " ", "F1">>,
      <<"MasterClass", " ", "F2">>>>

\* student_name_map of the family: no file, one student, two students of whom
\* one's identifier starts the other's
SubstNames ==
    {<<>>,
     <<[key |-> "F1", val |-> <<"Amy">>]>>,
     <<[key |-> "F1", val |-> <<"Amy">>], [key |-> "F12", val |-> <<"Bea">>]>>}

SubstBooks ==
    {[d \in 1..WeekDays |->
         [teachers |-> <<Liya, Bob>>,
          rows     |-> IF d = 1
                       THEN <<Row(TimeCell(9, 0), <<SubstTexts[a], SubstTexts[b]>>)>>
                       ELSE <<>>]] :
        a \in 1..Len(SubstTexts), b \in 1..Len(SubstTexts)}

InitSubst == InitWith({"teacher"}, SubstBooks, {<<>>}, {<<>>}, SubstNames)

SpecSubst == InitSubst /\ [][NextTeacher]_vars

\* the teacher's Monday cell, once its row has been resolved
SubstCell ==
    sheets[1].rows[1].cells[TeacherColumn(sheets[1].teachers, entities[ei], 0)]

\* the Monday row of the current teacher has been resolved and its cell kept
SubstResolved ==
    /\ gen = "teacher" /\ pc = "resolve" /\ di = 1 /\ ri = 2
    /\ schedule # <<>>

\* the positions of t at which "Group N" starts
GroupsAt(t) ==
    {i \in 1..(Len(t) - 2) : t[i] = "Group" /\ IsSpace(t[i + 1]) /\ IsNumber(t[i + 2])}

\* the numbers of the groups t names
GroupNumbersIn(t) == {t[i + 2] : i \in GroupsAt(t)}

\* every "Group N" of t carries the suffix
AllSuffixed(t) == \A i \in GroupsAt(t) : OccursAt(EnsembleCoaching, t, i + 3)

\* C24: in the text kept for a teacher's cell every "Group N" of the cell carries
\* " Ensemble Coaching", the groups named are those of the cell, and a cell in
\* which every "Group N" already carries the suffix is kept unchanged
GroupSuffixIdempotent ==
    SubstResolved =>
        LET text == schedule[Len(schedule)].text
        IN  /\ AllSuffixed(text)
            /\ GroupNumbersIn(text) = GroupNumbersIn(SubstCell)
            /\ (AllSuffixed(SubstCell) /\ StudentIdsIn(SubstCell) = <<>>
                    => text = SubstCell)

\* t with every lexeme that is a student identifier replaced by the name mapped
\* to that identifier
RECURSIVE NamedWordwise(_, _)
NamedWordwise(t, names) ==
    IF t = <<>> THEN <<>>
    ELSE (IF IsStudentId(t[1]) THEN Get(names, t[1], <<t[1]>>) ELSE <<t[1]>>)
             \o NamedWordwise(Tail(t), names)

\* C25: the text kept for a teacher's cell is the cell's text after the group
\* step with each student identifier replaced by the name mapped to that same
\* identifier, and nothing else changed
IdentifiersReplaced ==
    SubstResolved =>
        schedule[Len(schedule)].text
            = NamedWordwise(RenameGroups(SubstCell), student_name_map)

(***************************************************************************)
(* The free-time block of day 6, on the check-in family                    *)
(***************************************************************************)
\* the next row to resolve is a row of day 6 with a time in [16:30, 17:00)
FreeTimeRow ==
    /\ pc = "resolve"
    /\ di = 6
    /\ ri <= Len(sheets[di].rows)
    /\ LET time_val == sheets[di].rows[ri].time
       IN  /\ time_val.kind = "time"
           /\ Minutes(time_val.h, time_val.m) >= Minutes(16, 30)
           /\ Minutes(time_val.h, time_val.m) < Minutes(17, 0)

\* C26: resolving a day-6 row with a time in [16:30, 17:00) for a student adds
\* exactly one entry, which carries the free-time-block placeholder, whatever
\* the row's cells hold
Day6FreeTimeBlock ==
    [][(FreeTimeRow /\ ri' = ri + 1) =>
           /\ Len(schedule') = Len(schedule) + 1
           /\ SubSeq(schedule', 1, Len(schedule)) = schedule
           /\ schedule'[Len(schedule')].text = FREE_TIME_BLOCK]_vars

\* C28: a student's schedule of a day holds at most one entry for a time slot
OneEntryPerSlot ==
    gen \in {"student", "individual"} =>
        \A d \in DOMAIN daily_schedules :
            \A i, j \in DOMAIN daily_schedules[d] :
                daily_schedules[d][i].time = daily_schedules[d][j].time => i = j

(***************************************************************************)
(* The sentinel family: Saturday rows around the free-time block, with and *)
(* without a Monday row whose time lies between them                       *)
(***************************************************************************)
SentinelRows == 3

SentinelRowSet ==
    <<Row(TimeCell(16, 15), <<<<>>>>),
      Row(TimeCell(16, 15), <<Rehearsal>>),
      Row(TimeCell(16, 30), <<<<>>>>),
      Row(TimeCell(16, 45), <<Rehearsal>>)>>

\* the Saturday sheet holds any sequence of at most SentinelRows of the rows;
\* Monday holds no row or one at 16:40; the Tuesday row names the student F1
SentinelBooks ==
    {[d \in 1..WeekDays |->
         [teachers |-> <<Liya>>,
          rows     |-> IF d = 6 THEN [k \in DOMAIN f |-> SentinelRowSet[f[k]]]
                       ELSE IF d = 1 /\ monday
                       THEN <<Row(TimeCell(16, 40), <<<<"Lunch">>>>)>>
                       ELSE IF d = 2 THEN <<Row(TimeCell(9, 0), <<<<"F1">>>>)>>
                       ELSE <<>>]] :
        f \in UNION {[1..n -> 1..Len(SentinelRowSet)] : n \in 0..SentinelRows},
        monday \in BOOLEAN}

InitSentinel == InitWith({"student", "teacher"}, SentinelBooks, {<<>>}, {<<>>}, {<<>>})

SpecSentinel == InitSentinel /\ [][NextStudent \/ NextTeacher]_vars

\* the texts that stand for a placeholder block
Sentinels == {FREE_TIME_BLOCK, EVENING_MERGE_BLOCK, SATURDAY_MORNING_MERGE_BLOCK}

\* the blocks of day d of the saved timetable s that cover the output row of its
\* k-th entry
BlocksOver(s, d, k) ==
    {j \in DOMAIN s.blocks[d] :
        RowOf(s.daily[d][k].time, s.times, FirstRow) \in Covered(s.blocks[d][j])}

\* C27: in every saved timetable and day column, two consecutive entries that
\* carry a sentinel lie in one block, a block with a sentinel is written as the
\* empty string, and no block holds both a sentinel entry and an entry whose text
\* is the empty string
SentinelMerge ==
    \A i \in DOMAIN saved : \A d \in DOMAIN saved[i].blocks :
        LET s == saved[i]
        IN  /\ \A k \in 1..(Len(s.daily[d]) - 1) :
                   (s.daily[d][k].text \in Sentinels
                        /\ s.daily[d][k + 1].text = s.daily[d][k].text)
                       => /\ BlocksOver(s, d, k) = BlocksOver(s, d, k + 1)
                          /\ Cardinality(BlocksOver(s, d, k)) = 1
            /\ \A j \in DOMAIN s.blocks[d] :
                   s.blocks[d][j].text \in Sentinels => CellValue(s.blocks[d][j]) = <<>>
            /\ \A k, l \in DOMAIN s.daily[d] :
                   (s.daily[d][k].text \in Sentinels /\ s.daily[d][l].text = <<>>)
                       => BlocksOver(s, d, k) \cap BlocksOver(s, d, l) = {}

(***************************************************************************)
(* The group-safety family: one Monday row whose cells name groups whose   *)
(* numbers start with, but are not, the numbers of the students' groups    *)
(***************************************************************************)
SafetyTexts ==
    <<<<>>,
      <<"Group", " ", "1">>,
      <<"Group", " ", "10">>,
      <<"Group", " ", "2", ",", " ", "5", " ", "Duet">>,
      <<"Group", " ", "25", ",", " ", "5", " ", "Duet">>>>

\* the group numbers each cell of the family names
NamedGroups(cell) ==
    CASE cell = SafetyTexts[2] -> {<<"Group", " ", "1">>}
      [] cell = SafetyTexts[3] -> {<<"Group", " ", "10">>}
      [] cell = SafetyTexts[4] -> {<<"Group", " ", "2">>, <<"Group", " ", "5">>}
      [] cell = SafetyTexts[5] -> {<<"Group", " ", "25">>, <<"Group", " ", "5">>}
      [] OTHER -> {}

\* student_to_groups of the family: no file; F1 in Group 1 and F2 in Group 2;
\* F1 in Group 10 and F2 in Group 25
SafetyGroups ==
    {<<>>,
     ("F1" :> {<<"Group", " ", "1">>}) @@ ("F2" :> {<<"Group", " ", "2">>}),
     ("F1" :> {<<"Group", " ", "10">>}) @@ ("F2" :> {<<"Group", " ", "25">>})}

\* Monday holds one row of two group cells; Tuesday's row names the two students
SafetyBooks ==
    {[d \in 1..WeekDays |->
         [teachers |-> <<Liya, Bob>>,
          rows     |-> IF d = 1
                       THEN <<Row(TimeCell(9, 0), <<SafetyTexts[a], SafetyTexts[b]>>)>>
                       ELSE IF d = 2 THEN <<Row(TimeCell(9, 0), <<<<"F1">>, <<"F2">>>>)>>
                       ELSE <<>>]] :
        a \in 1..Len(SafetyTexts), b \in 1..Len(SafetyTexts)}

InitSafety == InitWith({"student"}, SafetyBooks, RuleRooms, SafetyGroups, {<<>>})

SpecSafety == InitSafety /\ [][NextStudent]_vars

\* the Monday row of the current student has been resolved
SafetyResolved ==
    /\ gen = "student" /\ pc = "resolve" /\ di = 1 /\ ri = 2
    /\ schedule # <<>>

\* the entry is one of a group rule: an ensemble, or the phrase of the family's
\* cells with a qualifier
GroupDerived(text) ==
    \/ text # <<>> /\ text[1] = "Ensemble"
    \/ text = <<"Duet", "\n", "(", "Group", ")">>

\* C29: a student gets a group-derived entry from a row only if a cell of the row
\* names the number of a group the student is a member of
GroupSafety ==
    SafetyResolved =>
        (GroupDerived(schedule[Len(schedule)].text) =>
            \E c \in DOMAIN sheets[1].rows[1].cells :
                NamedGroups(sheets[1].rows[1].cells[c])
                    \cap StudentGroups(student_to_groups, entities[ei]) # {})

(***************************************************************************)
(* The pianist timetable (process_pianist_timetables.py): the merged       *)
(* ranges of the output worksheet                                          *)
(***************************************************************************)
ROW_SHIFT == 2

Range(min_row, max_row, min_col, max_col) ==
    [min_row |-> min_row, max_row |-> max_row, min_col |-> min_col, max_col |-> max_col]

\* pianist_ws.max_row and pianist_ws.max_column: the data starts at row 3, and
\* column 1 holds the times
MaxRow(ws) == ROW_SHIFT + Len(ws.time)

MaxColumn(ws) == 1 + Len(ws.empty[1])

\* pianist_ws.merge_cells(...): the range is recorded; where the library turns the
\* cells of the range other than its top-left cell into merged cells (ws.clears),
\* they lose their values
merge_cells(ws, r) ==
    LET lost(row, col) ==
            /\ ws.clears
            /\ r.min_row <= row /\ row <= r.max_row
            /\ r.min_col <= col /\ col <= r.max_col
            /\ ~(row = r.min_row /\ col = r.min_col)
    IN  [ws EXCEPT
            !.merged_cells = Append(ws.merged_cells, r),
            !.time  = [k \in DOMAIN ws.time |->
                          IF lost(k + ROW_SHIFT, 1) THEN <<>> ELSE ws.time[k]],
            !.empty = [k \in DOMAIN ws.empty |->
                          [c \in DOMAIN ws.empty[k] |->
                              lost(k + ROW_SHIFT, c + 1) \/ ws.empty[k][c]]]]

\* lines 195-196: the rectangle shares a cell with an existing range
Conflict(min_row, max_row, min_col, max_col, existing_range) ==
    ~(\/ max_row < existing_range.min_row \/ min_row > existing_range.max_row
      \/ max_col < existing_range.min_col \/ min_col > existing_range.max_col)

\* lines 177-204: the body of `for merged_range in original_sheet.merged_cells.ranges`
CopyStep(ws, merged_range) ==
    LET min_col == merged_range.min_col
        max_col == merged_range.max_col
        min_row == merged_range.min_row + ROW_SHIFT
        max_row == merged_range.max_row + ROW_SHIFT
    IN  IF min_row <= 2 THEN ws
        ELSE IF min_row # max_row \/ min_col # max_col
        THEN IF \E i \in DOMAIN ws.merged_cells :
                    Conflict(min_row, max_row, min_col, max_col, ws.merged_cells[i])
             THEN ws
             ELSE merge_cells(ws, Range(min_row, max_row, min_col, max_col))
        ELSE ws

\* int(s) for a string of digits
RECURSIVE IntOf(_)
IntOf(s) == IF s = <<>> THEN 0 ELSE 10 * IntOf(SubSeq(s, 1, Len(s) - 1)) + DigitVal(s[Len(s)])

AllDigits(s) == s # <<>> /\ \A i \in 1..Len(s) : IsDigit(s[i])

\* lines 273-301: the key of time_row_mapping a value of column 1 gives, <<>> when
\* it gives none (a number of three digits or more gives a key that is no
\* evening time)
EveningKey(value) ==
    LET stripped == StripChars(value)
        has(c)   == \E i \in 1..Len(stripped) : stripped[i] = c
        time_str == IF has(":") THEN stripped
                    ELSE IF has(".")
                    THEN [i \in 1..Len(stripped) |->
                             IF stripped[i] = "." THEN ":" ELSE stripped[i]]
                    ELSE IF Len(stripped) = 4 /\ AllDigits(stripped)
                    THEN SubSeq(stripped, 1, 2) \o <<":">> \o SubSeq(stripped, 3, 4)
                    ELSE IF Len(stripped) = 3 /\ AllDigits(stripped)
                    THEN <<"0", stripped[1], ":">> \o SubSeq(stripped, 2, 3)
                    ELSE stripped
        parts    == SplitOn(time_str, ":")
    IN  IF value = <<>> THEN <<>>
        ELSE IF Len(parts) = 2 /\ AllDigits(parts[1]) /\ AllDigits(parts[2])
                /\ IntOf(parts[1]) < 100 /\ IntOf(parts[2]) < 100
        THEN FormatHM(IntOf(parts[1]), IntOf(parts[2]))
        ELSE <<>>

evening_times == {FormatHM(19, 0), FormatHM(20, 0), FormatHM(21, 0), FormatHM(22, 0)}

\* lines 305-308: time_row_mapping[time_slot] for the evening times found; a later
\* row with the same time replaces an earlier one
EveningRows(ws) ==
    {CHOOSE row \in (ROW_SHIFT + 1)..MaxRow(ws) :
         /\ EveningKey(ws.time[row - ROW_SHIFT]) = t
         /\ \A later \in (row + 1)..MaxRow(ws) : EveningKey(ws.time[later - ROW_SHIFT]) # t :
        t \in {u \in evening_times :
                  \E k \in DOMAIN ws.time : EveningKey(ws.time[k]) = u}}

\* EveningOverlap with the test of the rows against the first row of the new range
\* only
EveningOverlapAtStart(existing_range, col_num, start_row, end_row) ==
    /\ existing_range.min_col <= col_num /\ col_num <= existing_range.max_col
    /\ existing_range.min_row <= start_row /\ start_row <= existing_range.max_row

\* lines 332-333 and 243-244: the rows start_row..end_row of the column share a
\* cell with an existing range
EveningOverlap(existing_range, col_num, start_row, end_row) ==
    /\ existing_range.min_col <= col_num /\ col_num <= existing_range.max_col
    /\ ~(end_row < existing_range.min_row \/ start_row > existing_range.max_row)

\* lines 323-345: `for col_num in day_columns`, from column col_num on
RECURSIVE EveningFrom(_, _, _, _)
EveningFrom(ws, col_num, start_row, end_row) ==
    IF col_num > MaxColumn(ws) \/ col_num > 6 THEN ws
    ELSE LET range_overlaps ==
                 \E i \in DOMAIN ws.merged_cells :
                     EveningOverlap(ws.merged_cells[i], col_num, start_row, end_row)
         IN  EveningFrom(IF range_overlaps THEN ws
                         ELSE merge_cells(ws, Range(start_row, end_row, col_num, col_num)),
                         col_num + 1, start_row, end_row)

\* lines 259-347: apply_evening_time_merging
ApplyEveningTimeMerging(ws) ==
    LET evening_rows == EveningRows(ws)
    IN  IF Cardinality(evening_rows) < 2 THEN ws
        ELSE EveningFrom(ws, 2,
                         CHOOSE r \in evening_rows : \A q \in evening_rows : r <= q,
                         CHOOSE r \in evening_rows : \A q \in evening_rows : r >= q)

\* lines 222-257: the groups of consecutive empty cells of column col_num from
\* row_num on; column_data is the column as it was when its loop began
RECURSIVE EmptyFrom(_, _, _, _)
EmptyFrom(ws, column_data, col_num, row_num) ==
    IF row_num > ROW_SHIFT + Len(column_data) THEN ws
    ELSE IF ~column_data[row_num - ROW_SHIFT]
    THEN EmptyFrom(ws, column_data, col_num, row_num + 1)
    ELSE LET start_row == row_num
             end_row   == CHOOSE e \in row_num..(ROW_SHIFT + Len(column_data)) :
                              /\ \A r \in row_num..e : column_data[r - ROW_SHIFT]
                              /\ (e = ROW_SHIFT + Len(column_data)
                                      \/ ~column_data[e + 1 - ROW_SHIFT])
             range_overlaps ==
                 \E i \in DOMAIN ws.merged_cells :
                     EveningOverlap(ws.merged_cells[i], col_num, start_row, end_row)
         IN  EmptyFrom(IF end_row > start_row /\ ~range_overlaps
                       THEN merge_cells(ws, Range(start_row, end_row, col_num, col_num))
                       ELSE ws,
                       column_data, col_num, end_row + 1)

\* the output worksheet is not touched by the timetable generators
generators == <<gen, sheets, room_mappings, student_to_groups, student_name_map,
                room_no_map, pc, entities, ei, di, ri, schedule, check_in_added,
                daily_schedules, all_time_slots, written, wd, saved, run, first_run>>

\* process_pianist_timetables lines 476-481: the pianist's name is merged across
\* row 1
MergeName ==
    /\ merge_pc.stage = "name"
    /\ pianist_ws' = IF MaxColumn(pianist_ws) > 1
                     THEN merge_cells(pianist_ws, Range(1, 1, 1, MaxColumn(pianist_ws)))
                     ELSE pianist_ws
    /\ merge_pc' = [stage |-> "copy", k |-> 1]
    /\ UNCHANGED <<generators, original_sheet>>

\* apply_cell_merging lines 177-204: one merged range of the source sheet
CopyMerge ==
    /\ merge_pc.stage = "copy"
    /\ merge_pc.k <= Len(original_sheet)
    /\ pianist_ws' = CopyStep(pianist_ws, original_sheet[merge_pc.k])
    /\ merge_pc' = [merge_pc EXCEPT !.k = @ + 1]
    /\ UNCHANGED <<generators, original_sheet>>

\* apply_cell_merging line 212: the evening merges, after the last source range
EveningMerge ==
    /\ merge_pc.stage = "copy"
    /\ merge_pc.k > Len(original_sheet)
    /\ pianist_ws' = ApplyEveningTimeMerging(pianist_ws)
    /\ merge_pc' = [stage |-> "empty", k |-> 2]
    /\ UNCHANGED <<generators, original_sheet>>

\* apply_cell_merging lines 221-257: the empty cells of one column
EmptyMerge ==
    /\ merge_pc.stage = "empty"
    /\ merge_pc.k <= MaxColumn(pianist_ws)
    /\ pianist_ws' = EmptyFrom(pianist_ws,
                               [k \in DOMAIN pianist_ws.empty |->
                                   pianist_ws.empty[k][merge_pc.k - 1]],
                               merge_pc.k, ROW_SHIFT + 1)
    /\ merge_pc' = [merge_pc EXCEPT !.k = @ + 1]
    /\ UNCHANGED <<generators, original_sheet>>

\* the merging is over: the sheet is formatted and saved
MergingDone ==
    /\ merge_pc.stage = "empty"
    /\ merge_pc.k > MaxColumn(pianist_ws)
    /\ merge_pc' = [stage |-> "done", k |-> 0]
    /\ UNCHANGED <<generators, original_sheet, pianist_ws>>

NextPianistSheet == MergeName \/ CopyMerge \/ EveningMerge \/ EmptyMerge \/ MergingDone

(***************************************************************************)
(* The pianist sheet family: four data rows and two day columns            *)
(***************************************************************************)
\* the most merged ranges the source sheet of the family holds
MaxSourceRanges == 2

\* merged ranges of a source sheet: two that overlap in a column, a block of two
\* columns, a merged first row, a range of three rows, and a single cell
SourceRanges ==
    <<Range(1, 2, 2, 2), Range(2, 3, 2, 2), Range(3, 4, 2, 3),
      Range(1, 1, 1, 3), Range(2, 4, 3, 3), Range(1, 1, 2, 2)>>

\* column 1 of the data rows: evening hours from the second row on, the four
\* evening hours, no evening hour, and two evening hours in other spellings
\* around an empty row
TimeColumns ==
    {<<FormatHM(18, 0), FormatHM(19, 0), FormatHM(20, 0), FormatHM(21, 0)>>,
     <<FormatHM(19, 0), FormatHM(20, 0), FormatHM(21, 0), FormatHM(22, 0)>>,
     <<FormatHM(9, 0), FormatHM(10, 0), FormatHM(11, 0), FormatHM(12, 0)>>,
     <<<<"T", "i", "m", "e">>, <<"1", "9", ".", "0", "0">>, <<>>, <<"2", "2", "0", "0">>>>}

\* which cells of the day columns are empty, row by row
EmptyGrids ==
    {<<<<TRUE, TRUE>>, <<TRUE, TRUE>>, <<TRUE, TRUE>>, <<TRUE, TRUE>>>>,
     <<<<FALSE, FALSE>>, <<FALSE, FALSE>>, <<FALSE, FALSE>>, <<FALSE, FALSE>>>>,
     <<<<FALSE, TRUE>>, <<FALSE, TRUE>>, <<TRUE, TRUE>>, <<TRUE, FALSE>>>>,
     <<<<TRUE, FALSE>>, <<TRUE, TRUE>>, <<FALSE, TRUE>>, <<TRUE, TRUE>>>>}

InitPianistSheet ==
    /\ gen = "pianist"
    /\ sheets = <<>>
    /\ room_mappings = <<>> /\ student_to_groups = <<>>
    /\ student_name_map = <<>> /\ room_no_map = <<>>
    /\ entities = <<>> /\ pc = "done"
    /\ ei = 1 /\ di = 1 /\ ri = 1 /\ wd = 1
    /\ schedule = <<>> /\ check_in_added = FALSE
    /\ daily_schedules = <<>> /\ all_time_slots = {}
    /\ written = <<>> /\ saved = <<>>
    /\ run = 1 /\ first_run = <<>>
    /\ original_sheet \in
           {[k \in DOMAIN f |-> SourceRanges[f[k]]] :
               f \in UNION {[1..n -> 1..Len(SourceRanges)] : n \in 0..MaxSourceRanges}}
    /\ pianist_ws \in
           {[time |-> t, empty |-> e, merged_cells |-> <<>>, clears |-> c] :
               t \in TimeColumns, e \in EmptyGrids, c \in BOOLEAN}
    /\ merge_pc = [stage |-> "name", k |-> 0]

SpecPianistSheet == InitPianistSheet /\ [][NextPianistSheet]_vars

\* the cells of a range
CellsOfRange(r) == (r.min_row..r.max_row) \X (r.min_col..r.max_col)

\* no two merged ranges of the output worksheet share a cell
NoOverlap ==
    \A i, j \in DOMAIN pianist_ws.merged_cells :
        i # j => CellsOfRange(pianist_ws.merged_cells[i])
                     \cap CellsOfRange(pianist_ws.merged_cells[j]) = {}

\* C30: at every point of the merging of the pianist's sheet no two merged ranges
\* of the output worksheet overlap, and a step leaves the ranges that exist as
\* they are: it only adds ranges
PianistMergesDisjoint ==
    /\ [](NoOverlap)
    /\ [][/\ Len(pianist_ws'.merged_cells) >= Len(pianist_ws.merged_cells)
          /\ SubSeq(pianist_ws'.merged_cells, 1, Len(pianist_ws.merged_cells))
                 = pianist_ws.merged_cells]_vars

\* the merging is over; the second source range was skipped because it overlaps
\* the first, the evening merge was skipped in column 2 and made in column 3
PianistMergesDisjointWitness ==
    /\ merge_pc.stage = "done"
    /\ original_sheet = <<SourceRanges[1], SourceRanges[2]>>
    /\ pianist_ws.time[1] = FormatHM(19, 0)
    /\ \E i \in DOMAIN pianist_ws.merged_cells :
           pianist_ws.merged_cells[i] = Range(3, 4, 2, 2)
    /\ \A i \in DOMAIN pianist_ws.merged_cells :
           pianist_ws.merged_cells[i] # Range(4, 5, 2, 2)
    /\ \A i \in DOMAIN pianist_ws.merged_cells :
           pianist_ws.merged_cells[i] # Range(3, 6, 2, 2)
    /\ \E i \in DOMAIN pianist_ws.merged_cells :
           pianist_ws.merged_cells[i] = Range(3, 6, 3, 3)

====
